---------------------------- MODULE Spec2Model ----------------------------
(***************************************************************************)
(* Power Scouter (src/app.py): the workout logging engine and the tables   *)
(* it writes.  One interactive Streamlit session (st.session_state) acts   *)
(* on one SQLite store.  Every action is one script run started by a       *)
(* widget interaction, together with the rerun it triggers (st.rerun()),   *)
(* up to the point where the page waits for the next interaction.          *)
(***************************************************************************)
EXTENDS Integers, Sequences, FiniteSets, TLC

(***************************************************************************)
(* Bounds of the model.                                                    *)
(***************************************************************************)
MaxSessions == 2    \* sessions ever created (last id of sessions)
MaxRows     == 2    \* sets ever stored (last id of workout_sets) plus tuples buffered
MaxUsers    == 3    \* accounts ever created (last id of users)
MaxExercises == 3   \* exercises ever created (last id of exercises)
MaxBuf      == 3    \* tuples buffered, where nothing is stored

(***************************************************************************)
(* Values.  None is Python's None / an absent session_state key; ids and   *)
(* AUTOINCREMENT counters start at 1, so 0 is free to stand for it.        *)
(* NULL is the SQL NULL of users.weight_kg (the column is added without a  *)
(* default and create_user never sets it).                                 *)
(***************************************************************************)
None == 0
NULL == -1

\* messages that stay on the page (st.error / st.warning without st.rerun())
MsgNone        == ""
MsgMissingBW   == "Please set your body weight in profile first."
MsgInvalidReps == "Reps must be at least 1."
MsgNoSets      == "No sets to save."
MsgException   == "sqlite3.Error"
MsgLoginInvalid == "Invalid username or password"
MsgLoginEmpty   == "Please enter username and password"
MsgMismatch     == "Passwords do not match"
MsgUserExists   == "Username already exists"
MsgCreateError  == "Error creating account"
MsgFillAll      == "Please fill all fields"
MsgExerciseExists == "Exercise with this name already exists."
MsgStopped        == "stopped"

\* What the user can have in the set-input widgets when pressing Add Set:
\* the Bodyweight? checkbox, the weight field, the reps field, the RPE slider.
\* reps = 0 is below the widget's minimum and is there to reach the
\* handler's own check (line 625).
FormInputs ==
    { [bodyweight |-> FALSE, added_weight |-> 0,  reps |-> 1, rpe |-> 0],
      [bodyweight |-> TRUE,  added_weight |-> 10, reps |-> 2, rpe |-> 10],
      [bodyweight |-> FALSE, added_weight |-> 10, reps |-> 0, rpe |-> 5],
      [bodyweight |-> TRUE,  added_weight |-> 0,  reps |-> 0, rpe |-> 5] }

\* What the user can have in the Session Date field when pressing Create
\* Session: the field starts at date.today().
Today == "2024-05-02"
Dates == { "2024-05-01", Today }

\* What the user can save as body weight in the profile form.
ProfileWeights == {0}

VARIABLES
    users,              \* table users: rows [id, username, password_hash,
                        \*   is_admin, weight_kg]
    exercises,          \* table exercises: rows [id, name]
    sessions,           \* table sessions: rows [id, user_id]
    session_seq,        \* sqlite_sequence of sessions (last id given)
    workout_sets,       \* table workout_sets
    set_seq,            \* sqlite_sequence of workout_sets (last id given)
    user_id,            \* st.session_state.user_id
    is_admin,           \* st.session_state.is_admin
    current_session_id, \* st.session_state.current_session_id (0: create new)
    workout_log,        \* st.session_state.workout_log: insertion-ordered dict
    current_exercise,   \* st.session_state.current_exercise
    exercise_selector,  \* state of the widget keyed "exercise_selector"
    confirm_delete,     \* st.session_state.confirm_delete (None: key absent)
    msg                 \* the message left on the page by the last run

\* The rest of the store, and the processes starting up on it.  The Log
\* Workout tab reads and writes none of these.
VARIABLES
    user_seq,            \* sqlite_sequence of users
    categories,          \* table categories: rows [id, name]
    category_seq,        \* sqlite_sequence of categories
    exercise_seq,        \* sqlite_sequence of exercises
    exercise_categories, \* table exercise_categories: rows [exercise_id, category_id]
    ret,                 \* the last call of a persistence function: its name,
                         \*   arguments, returned value and, for those that
                         \*   report one, error
    schema,              \* the columns of each table of the store
    procs                \* the processes running the startup steps: where
                         \*   each is (pc, i), its local columns, its open
                         \*   transaction (the connection's view) and the
                         \*   exception that ended it

other_vars == << user_seq, categories, category_seq, exercise_seq,
                 exercise_categories, ret, schema, procs >>

vars == << users, exercises, sessions, session_seq, workout_sets, set_seq,
           user_id, is_admin, current_session_id, workout_log,
           current_exercise, exercise_selector, confirm_delete, msg,
           other_vars >>

db_vars == << users, exercises, sessions, session_seq, workout_sets, set_seq >>

-----------------------------------------------------------------------------
(***************************************************************************)
(* The insertion-ordered dict workout_log: a sequence of [ex, sets]        *)
(* entries with pairwise distinct keys; sets is a sequence of tuples       *)
(* <<weight, reps, rpe>>.                                                  *)
(***************************************************************************)
LogKeys(log) == { log[i].ex : i \in DOMAIN log }

\* workout_log.get(e, [])
LogGet(log, e) ==
    IF e \in LogKeys(log)
    THEN log[CHOOSE i \in DOMAIN log : log[i].ex = e].sets
    ELSE << >>

\* workout_log[e] = v : in place for an existing key, at the end for a new one
LogPut(log, e, v) ==
    IF e \in LogKeys(log)
    THEN [ i \in DOMAIN log |-> IF log[i].ex = e THEN [ex |-> e, sets |-> v]
                                               ELSE log[i] ]
    ELSE Append(log, [ex |-> e, sets |-> v])

RECURSIVE LogSize(_)
LogSize(log) ==
    IF log = << >> THEN 0 ELSE Len(Head(log).sets) + LogSize(Tail(log))

-----------------------------------------------------------------------------
(***************************************************************************)
(* Persistence layer.                                                      *)
(***************************************************************************)
get_user_profile(us, uid) ==
    IF \E u \in us : u.id = uid
    THEN (CHOOSE u \in us : u.id = uid).weight_kg
    ELSE NULL

update_user_profile(us, uid, w) ==
    { IF u.id = uid THEN [u EXCEPT !.weight_kg = w] ELSE u : u \in us }

create_session(sess, seq, uid, session_date) ==
    sess \cup { [id |-> seq + 1, user_id |-> uid, date |-> session_date] }

\* get_user_sessions without its WHERE user_id = ?
get_user_sessions_of_anyone(sess, uid) == sess

get_user_sessions(sess, uid) == { s \in sess : s.user_id = uid }

\* delete_session without its DELETE FROM workout_sets
delete_session_sets_kept(ws, sid) == ws

delete_session_sets(ws, sid) == { r \in ws : r.session_id # sid }

delete_session_row(sess, sid) == { s \in sess : s.id # sid }

\* log_set as INSERT OR REPLACE on (session_id, exercise_id, set_number)
log_set_replacing(ws, seq, uid, sid, eid, weight, reps, set_number, rpe_rating) ==
    IF \E r \in ws : r.session_id = sid /\ r.exercise_id = eid
                     /\ r.set_number = set_number
    THEN { IF r.session_id = sid /\ r.exercise_id = eid
              /\ r.set_number = set_number
           THEN [ r EXCEPT !.weight = weight, !.reps = reps,
                           !.rpe_rating = rpe_rating ]
           ELSE r : r \in ws }
    ELSE ws \cup { [ id |-> seq + 1, user_id |-> uid, session_id |-> sid,
                     exercise_id |-> eid, weight |-> weight, reps |-> reps,
                     set_number |-> set_number, rpe_rating |-> rpe_rating ] }

\* log_set with reps and rpe_rating in each other's place in the VALUES tuple
log_set_rpe_as_reps(ws, seq, uid, sid, eid, weight, reps, set_number, rpe_rating) ==
    ws \cup { [ id |-> seq + 1, user_id |-> uid, session_id |-> sid,
                exercise_id |-> eid, weight |-> weight, reps |-> rpe_rating,
                set_number |-> set_number, rpe_rating |-> reps ] }

log_set(ws, seq, uid, sid, eid, weight, reps, set_number, rpe_rating) ==
    ws \cup { [ id |-> seq + 1, user_id |-> uid, session_id |-> sid,
                exercise_id |-> eid, weight |-> weight, reps |-> reps,
                set_number |-> set_number, rpe_rating |-> rpe_rating ] }

get_workout_sets_by_session(ws, exs, sid) ==
    { r \in ws : r.session_id = sid /\ \E e \in exs : e.id = r.exercise_id }


-----------------------------------------------------------------------------
(***************************************************************************)
(* Save Entire Workout: the calls of log_set the two nested loops make.    *)
(***************************************************************************)
\* enumerate(sets) left at its default start of 0
ExerciseCallsFromZero(ex, sets) ==
    [ i \in 1..Len(sets) |-> [ex |-> ex, set_num |-> i - 1, tuple |-> sets[i]] ]

\* enumerate(sets, start=1) for one dict entry
ExerciseCalls(ex, sets) ==
    [ i \in 1..Len(sets) |-> [ex |-> ex, set_num |-> i, tuple |-> sets[i]] ]

\* for ex_id, sets in workout_log.items(): for set_num, (w, r, rpe) in ...
RECURSIVE SaveCalls(_)
SaveCalls(log) ==
    IF log = << >> THEN << >>
    ELSE ExerciseCalls(Head(log).ex, Head(log).sets) \o SaveCalls(Tail(log))

\* workout_sets after the first n calls; each log_set commits on its own
RECURSIVE SaveLoop(_, _, _, _, _, _)
SaveLoop(ws, seq, uid, sid, calls, n) ==
    IF n = 0 THEN ws
    ELSE LET c == calls[n]
         IN  log_set(SaveLoop(ws, seq, uid, sid, calls, n - 1), seq + n - 1,
                     uid, sid, c.ex, c.tuple[1], c.tuple[2], c.set_num,
                     c.tuple[3])

-----------------------------------------------------------------------------
(***************************************************************************)
(* The page: what a script run does to st.session_state on its way to the  *)
(* widgets, before any button is looked at.                                *)
(***************************************************************************)
\* session_options: 0 and the ids of the logged-in user's sessions
SessionOptions(sess, uid) == {0} \cup { s.id : s \in get_user_sessions(sess, uid) }

\* get_exercises() is ordered by name; the rows of Init are named in id order
FirstExercise(exs) ==
    CHOOSE e \in { x.id : x \in exs } : \A x \in exs : e <= x.id

\* The run after a handler left (uid, cur, log, cur_ex) in session_state and
\* sel in the exercise selectbox.  Logged out, the script stops at the login
\* gate.  A current_session_id that is no option falls back to 0.  With a
\* session selected and exercises present the logging interface is drawn:
\* the selectbox keeps its value or starts at the first option, and a
\* current_exercise that differs from it is set to it, with an empty list
\* for a new key.  A selectbox that is not drawn loses its value.
Page(uid, sess, exs, cur, log, cur_ex, sel) ==
    LET cur1    == IF uid # None /\ cur \notin SessionOptions(sess, uid)
                   THEN 0 ELSE cur
        shown   == uid # None /\ cur1 # 0 /\ exs # {}
        sel1    == IF ~shown THEN None
                   ELSE IF sel # None THEN sel ELSE FirstExercise(exs)
        changed == shown /\ cur_ex # sel1
    IN  [ current_session_id |-> cur1,
          exercise_selector  |-> sel1,
          current_exercise   |-> IF changed THEN sel1 ELSE cur_ex,
          workout_log        |-> IF changed /\ sel1 \notin LogKeys(log)
                                 THEN LogPut(log, sel1, << >>) ELSE log ]

Rerun(uid, sess, exs, cur, log, cur_ex, sel) ==
    LET p == Page(uid, sess, exs, cur, log, cur_ex, sel)
    IN  /\ current_session_id' = p.current_session_id
        /\ exercise_selector' = p.exercise_selector
        /\ current_exercise' = p.current_exercise
        /\ workout_log' = p.workout_log

\* the logging interface is on the page
LoggingShown ==
    user_id # None /\ current_session_id # 0 /\ exercises # {}

-----------------------------------------------------------------------------
(***************************************************************************)
(* The schema of the store, table by table: the set of a table's column    *)
(* names, empty for a table that does not exist.                           *)
(***************************************************************************)
Tables == { "users", "categories", "exercises", "exercise_categories",
            "sessions", "workout_sets" }

\* what init_db of src/app.py creates in an empty store
InitDbSchema ==
    [ users               |-> { "id", "username", "password_hash", "is_admin" },
      categories          |-> { "id", "name" },
      exercises           |-> { "id", "name", "description" },
      exercise_categories |-> { "exercise_id", "category_id" },
      sessions            |-> { "id", "user_id", "name", "date", "notes" },
      workout_sets        |-> { "id", "user_id", "session_id", "exercise_id",
                                "weight", "reps", "set_number", "rpe_rating" } ]

\* the profile columns upgrade_schema adds, in its order
profile_columns == << "age", "weight_kg", "height_cm", "gender" >>

\* the current schema: init_db followed by upgrade_schema on an empty store
CurrentSchema ==
    [ InitDbSchema EXCEPT
        !.users = @ \cup { profile_columns[i] : i \in DOMAIN profile_columns } ]

\* the categories seeded at startup, in their order
default_cats ==
    << "Legs", "Chest", "Core", "Back", "Shoulders", "Arms", "Full Body" >>

SeededCategories ==
    { [id |-> i, name |-> default_cats[i]] : i \in DOMAIN default_cats }

\* pbkdf2_sha256.hash: a string carrying the scheme, a salt drawn by the
\* library and the checksum, which depends on the salt and the password
hash_password(password, salt) ==
    [ scheme |-> "pbkdf2-sha256", salt |-> salt,
      checksum |-> << "pbkdf2-sha256", salt, password >> ]

\* pbkdf2_sha256.verify: the checksum of the password under the hash's salt
verify_password(password, hash) ==
    hash.checksum = hash_password(password, hash.salt).checksum

\* the processes that can start up on one store
Procs == { "p1", "p2" }

\* a process that has finished its startup steps
Started == [ pc |-> "done", i |-> 0, columns |-> {}, txn |-> << >>, err |-> "" ]

\* no persistence call made yet
NoRet == [ op |-> "" ]

\* the rest of the store after startup, next to the tables of Init
InitOther ==
    /\ user_seq = 2
    /\ categories = SeededCategories
    /\ category_seq = Len(default_cats)
    /\ exercise_seq = 2
    /\ exercise_categories = {}
    /\ ret = NoRet
    /\ schema = CurrentSchema
    /\ procs = [ p \in Procs |-> Started ]

-----------------------------------------------------------------------------
(***************************************************************************)
(* Initial state: a store on the current schema holding two accounts (one  *)
(* made admin in the store, as sign-up never does) and two exercises, no   *)
(* sessions, no sets; a fresh st.session_state.                            *)
(***************************************************************************)
Init ==
    /\ users = { [ id |-> 1, username |-> "ann",
                   password_hash |-> hash_password("pw-a", "s1"),
                   is_admin |-> 1, weight_kg |-> 70 ],
                 [ id |-> 2, username |-> "bob",
                   password_hash |-> hash_password("pw-b", "s1"),
                   is_admin |-> 0, weight_kg |-> NULL ] }
    /\ exercises = { [id |-> 1, name |-> "Bench Press"],
                     [id |-> 2, name |-> "Pull Up"] }
    /\ sessions = {}
    /\ session_seq = 0
    /\ workout_sets = {}
    /\ set_seq = 0
    /\ user_id = None
    /\ is_admin = FALSE
    /\ current_session_id = 0
    /\ workout_log = << >>
    /\ current_exercise = None
    /\ exercise_selector = None
    /\ confirm_delete = None
    /\ msg = MsgNone
    /\ InitOther

-----------------------------------------------------------------------------
(***************************************************************************)
(* Sidebar: login, profile, logout.                                        *)
(***************************************************************************)
\* Log In with the name and password of account u: authenticate_user
\* returns (u.id, u.is_admin), and "if user_id:" asks for an id that is not 0.
\* workout_log is not touched.
Login(u) ==
    /\ user_id = None
    /\ u \in users
    /\ u.id # 0
    /\ user_id' = u.id
    /\ is_admin' = (u.is_admin = 1)
    /\ Rerun(u.id, sessions, exercises, 0, workout_log, current_exercise,
             exercise_selector)
    /\ msg' = MsgNone
    /\ UNCHANGED << db_vars, confirm_delete >>
    /\ UNCHANGED other_vars

\* Save Profile with body weight w
SaveProfile(w) ==
    /\ user_id # None
    /\ users' = update_user_profile(users, user_id, w)
    /\ Rerun(user_id, sessions, exercises, current_session_id, workout_log,
             current_exercise, exercise_selector)
    /\ msg' = MsgNone
    /\ UNCHANGED << exercises, sessions, session_seq, workout_sets, set_seq,
                    user_id, is_admin, confirm_delete >>
    /\ UNCHANGED other_vars

\* Logout without its reset of current_session_id
LogoutKeepingSession ==
    /\ user_id # None
    /\ user_id' = None
    /\ is_admin' = FALSE
    /\ current_session_id' = current_session_id
    /\ exercise_selector' = exercise_selector
    /\ current_exercise' = None
    /\ workout_log' = << >>
    /\ msg' = MsgNone
    /\ UNCHANGED << db_vars, confirm_delete >>
    /\ UNCHANGED other_vars

\* Logout without its reset of workout_log
LogoutKeepingLog ==
    /\ user_id # None
    /\ user_id' = None
    /\ is_admin' = FALSE
    /\ Rerun(None, sessions, exercises, 0, workout_log, None, exercise_selector)
    /\ msg' = MsgNone
    /\ UNCHANGED << db_vars, confirm_delete >>
    /\ UNCHANGED other_vars

Logout ==
    /\ user_id # None
    /\ user_id' = None
    /\ is_admin' = FALSE
    /\ Rerun(None, sessions, exercises, 0, << >>, None, exercise_selector)
    /\ msg' = MsgNone
    /\ UNCHANGED << db_vars, confirm_delete >>
    /\ UNCHANGED other_vars

-----------------------------------------------------------------------------
(***************************************************************************)
(* Log Workout tab: sessions.                                              *)
(***************************************************************************)
\* the session switch without its reset of workout_log
SelectSessionKeepingLog(s) ==
    /\ user_id # None
    /\ s \in SessionOptions(sessions, user_id)
    /\ s # current_session_id
    /\ Rerun(user_id, sessions, exercises, s, workout_log, None,
             exercise_selector)
    /\ msg' = MsgNone
    /\ UNCHANGED << db_vars, user_id, is_admin, confirm_delete >>
    /\ UNCHANGED other_vars

\* The user picks option s in the Select Session box.
SelectSession(s) ==
    /\ user_id # None
    /\ s \in SessionOptions(sessions, user_id)
    /\ s # current_session_id
    /\ Rerun(user_id, sessions, exercises, s, << >>, None, exercise_selector)
    /\ msg' = MsgNone
    /\ UNCHANGED << db_vars, user_id, is_admin, confirm_delete >>
    /\ UNCHANGED other_vars

\* Create Session with a non-empty name; the rerun takes new_session_id.
CreateSessionOn(session_date) ==
    /\ user_id # None
    /\ current_session_id = 0
    /\ session_seq < MaxSessions
    /\ sessions' = create_session(sessions, session_seq, user_id, session_date)
    /\ session_seq' = session_seq + 1
    /\ Rerun(user_id, sessions', exercises, session_seq + 1, << >>, None,
             exercise_selector)
    /\ msg' = MsgNone
    /\ UNCHANGED << users, exercises, workout_sets, set_seq, user_id, is_admin,
                    confirm_delete >>
    /\ UNCHANGED other_vars

\* Create Session with the Session Date field left as it starts
CreateSession == CreateSessionOn(Today)

\* Delete Workout deleting at once, without the confirmation
DeleteWorkoutAtOnce ==
    /\ user_id # None
    /\ current_session_id # 0
    /\ workout_sets' = delete_session_sets(workout_sets, current_session_id)
    /\ sessions' = delete_session_row(sessions, current_session_id)
    /\ confirm_delete' = None
    /\ Rerun(user_id, sessions', exercises, 0, << >>, None, exercise_selector)
    /\ msg' = MsgNone
    /\ UNCHANGED << users, exercises, session_seq, set_seq, user_id, is_admin >>
    /\ UNCHANGED other_vars

\* Delete Workout: asks for confirmation, nothing else
DeleteWorkout ==
    /\ user_id # None
    /\ current_session_id # 0
    /\ confirm_delete' = current_session_id
    /\ msg' = MsgNone
    /\ UNCHANGED << db_vars, user_id, is_admin, current_session_id,
                    workout_log, current_exercise, exercise_selector >>
    /\ UNCHANGED other_vars

\* Yes, delete; the rerun takes reset_to_new_session
YesDelete ==
    /\ user_id # None
    /\ current_session_id # 0
    /\ confirm_delete = current_session_id
    /\ workout_sets' = delete_session_sets(workout_sets, current_session_id)
    /\ sessions' = delete_session_row(sessions, current_session_id)
    /\ confirm_delete' = None
    /\ Rerun(user_id, sessions', exercises, 0, << >>, None, exercise_selector)
    /\ msg' = MsgNone
    /\ UNCHANGED << users, exercises, session_seq, set_seq, user_id, is_admin >>
    /\ UNCHANGED other_vars

CancelDelete ==
    /\ user_id # None
    /\ current_session_id # 0
    /\ confirm_delete = current_session_id
    /\ confirm_delete' = None
    /\ Rerun(user_id, sessions, exercises, current_session_id, workout_log,
             current_exercise, exercise_selector)
    /\ msg' = MsgNone
    /\ UNCHANGED << db_vars, user_id, is_admin >>
    /\ UNCHANGED other_vars

-----------------------------------------------------------------------------
(***************************************************************************)
(* Log Workout tab: the buffer.                                            *)
(***************************************************************************)
\* The user picks exercise e in the Add Exercise box.
SelectExercise(e) ==
    /\ LoggingShown
    /\ e \in { x.id : x \in exercises }
    /\ e # exercise_selector
    /\ Rerun(user_id, sessions, exercises, current_session_id, workout_log,
             current_exercise, e)
    /\ msg' = MsgNone
    /\ UNCHANGED << db_vars, user_id, is_admin, confirm_delete >>
    /\ UNCHANGED other_vars

\* profile_weight: the profile's weight_kg, 0.0 for NULL
ProfileWeight(w) == IF w # NULL THEN w ELSE 0

\* total_weight without the profile's weight
TotalWeightAddedOnly(bodyweight, profile_weight, added_weight) == added_weight

\* total_weight
TotalWeight(bodyweight, profile_weight, added_weight) ==
    IF bodyweight THEN profile_weight + added_weight ELSE added_weight

\* the checks without the body weight one
AddSetCheckRepsOnly(bodyweight, profile_weight, reps) ==
    IF reps <= 0 THEN MsgInvalidReps ELSE MsgNone

\* the reps check off by one
AddSetCheckRepsBelowZero(bodyweight, profile_weight, reps) ==
    IF bodyweight /\ profile_weight = 0 THEN MsgMissingBW
    ELSE IF reps < 0 THEN MsgInvalidReps
    ELSE MsgNone

\* the two checks of the Add Set button: the message, MsgNone when both pass
AddSetCheck(bodyweight, profile_weight, reps) ==
    IF bodyweight /\ profile_weight = 0 THEN MsgMissingBW
    ELSE IF reps <= 0 THEN MsgInvalidReps
    ELSE MsgNone

\* Add Set writing the set to the store at once, as well as buffering it
AddSetLoggingAtOnce(f) ==
    /\ LoggingShown
    /\ set_seq + LogSize(workout_log) < MaxRows
    /\ LET profile_weight == ProfileWeight(get_user_profile(users, user_id))
           total_weight   == TotalWeight(f.bodyweight, profile_weight,
                                         f.added_weight)
           sets_list      == LogGet(workout_log, exercise_selector)
           check          == AddSetCheck(f.bodyweight, profile_weight, f.reps)
       IN  IF check # MsgNone
           THEN /\ msg' = check
                /\ UNCHANGED << workout_log, current_session_id,
                                current_exercise, exercise_selector,
                                workout_sets, set_seq >>
           ELSE /\ msg' = MsgNone
                /\ workout_sets' = log_set(workout_sets, set_seq, user_id,
                                           current_session_id, exercise_selector,
                                           total_weight, f.reps,
                                           Len(sets_list) + 1, f.rpe)
                /\ set_seq' = set_seq + 1
                /\ Rerun(user_id, sessions, exercises, current_session_id,
                         LogPut(workout_log, exercise_selector,
                                Append(sets_list,
                                       << total_weight, f.reps, f.rpe >>)),
                         current_exercise, exercise_selector)
    /\ UNCHANGED << users, exercises, sessions, session_seq, user_id, is_admin,
                    confirm_delete >>
    /\ UNCHANGED other_vars

\* Add Set with the widgets holding f
AddSetWithin(f, rows) ==
    /\ LoggingShown
    /\ set_seq + LogSize(workout_log) < rows
    /\ LET profile_weight == ProfileWeight(get_user_profile(users, user_id))
           total_weight   == TotalWeight(f.bodyweight, profile_weight,
                                         f.added_weight)
           sets_list      == LogGet(workout_log, exercise_selector)
           check          == AddSetCheck(f.bodyweight, profile_weight, f.reps)
       IN  IF check # MsgNone
           THEN /\ msg' = check
                /\ UNCHANGED << workout_log, current_session_id,
                                current_exercise, exercise_selector >>
           ELSE /\ msg' = MsgNone
                /\ Rerun(user_id, sessions, exercises, current_session_id,
                         LogPut(workout_log, exercise_selector,
                                Append(sets_list,
                                       << total_weight, f.reps, f.rpe >>)),
                         current_exercise, exercise_selector)
    /\ UNCHANGED << db_vars, user_id, is_admin, confirm_delete >>
    /\ UNCHANGED other_vars

AddSet(f) == AddSetWithin(f, MaxRows)

\* Duplicate Last Set copying sets_list[0]
DuplicateFirstSetWithin(rows) ==
    /\ LoggingShown
    /\ LogGet(workout_log, exercise_selector) # << >>
    /\ set_seq + LogSize(workout_log) < rows
    /\ LET sets_list == LogGet(workout_log, exercise_selector)
           last      == sets_list[1]
       IN  Rerun(user_id, sessions, exercises, current_session_id,
                 LogPut(workout_log, exercise_selector, Append(sets_list, last)),
                 current_exercise, exercise_selector)
    /\ msg' = MsgNone
    /\ UNCHANGED << db_vars, user_id, is_admin, confirm_delete >>
    /\ UNCHANGED other_vars

\* Duplicate Last Set, drawn when sets_list is not empty
DuplicateLastSetWithin(rows) ==
    /\ LoggingShown
    /\ LogGet(workout_log, exercise_selector) # << >>
    /\ set_seq + LogSize(workout_log) < rows
    /\ LET sets_list == LogGet(workout_log, exercise_selector)
           last      == sets_list[Len(sets_list)]
       IN  Rerun(user_id, sessions, exercises, current_session_id,
                 LogPut(workout_log, exercise_selector, Append(sets_list, last)),
                 current_exercise, exercise_selector)
    /\ msg' = MsgNone
    /\ UNCHANGED << db_vars, user_id, is_admin, confirm_delete >>
    /\ UNCHANGED other_vars

DuplicateLastSet == DuplicateLastSetWithin(MaxRows)

\* Clear Sets for This Exercise emptying the whole dict
ClearAllSets ==
    /\ LoggingShown
    /\ LogGet(workout_log, exercise_selector) # << >>
    /\ Rerun(user_id, sessions, exercises, current_session_id, << >>,
             current_exercise, exercise_selector)
    /\ msg' = MsgNone
    /\ UNCHANGED << db_vars, user_id, is_admin, confirm_delete >>
    /\ UNCHANGED other_vars

ClearSets ==
    /\ LoggingShown
    /\ LogGet(workout_log, exercise_selector) # << >>
    /\ Rerun(user_id, sessions, exercises, current_session_id,
             LogPut(workout_log, exercise_selector, << >>),
             current_exercise, exercise_selector)
    /\ msg' = MsgNone
    /\ UNCHANGED << db_vars, user_id, is_admin, confirm_delete >>
    /\ UNCHANGED other_vars

\* Save Entire Workout without its reset of workout_log
SaveEntireWorkoutKeepingLog ==
    /\ LoggingShown
    /\ set_seq + LogSize(workout_log) <= MaxRows
    /\ IF workout_log = << >>
       THEN /\ msg' = MsgNoSets
            /\ UNCHANGED << workout_sets, set_seq, workout_log,
                            current_session_id, current_exercise,
                            exercise_selector >>
       ELSE LET calls == SaveCalls(workout_log)
            IN  /\ workout_sets' = SaveLoop(workout_sets, set_seq, user_id,
                                            current_session_id, calls, Len(calls))
                /\ set_seq' = set_seq + Len(calls)
                /\ Rerun(user_id, sessions, exercises, current_session_id,
                         workout_log, None, exercise_selector)
                /\ msg' = MsgNone
    /\ UNCHANGED << users, exercises, sessions, session_seq, user_id, is_admin,
                    confirm_delete >>
    /\ UNCHANGED other_vars

\* Save Entire Workout, every log_set succeeding
SaveEntireWorkout ==
    /\ LoggingShown
    /\ set_seq + LogSize(workout_log) <= MaxRows
    /\ IF workout_log = << >>
       THEN /\ msg' = MsgNoSets
            /\ UNCHANGED << workout_sets, set_seq, workout_log,
                            current_session_id, current_exercise,
                            exercise_selector >>
       ELSE LET calls == SaveCalls(workout_log)
            IN  /\ workout_sets' = SaveLoop(workout_sets, set_seq, user_id,
                                            current_session_id, calls, Len(calls))
                /\ set_seq' = set_seq + Len(calls)
                /\ Rerun(user_id, sessions, exercises, current_session_id,
                         << >>, None, exercise_selector)
                /\ msg' = MsgNone
    /\ UNCHANGED << users, exercises, sessions, session_seq, user_id, is_admin,
                    confirm_delete >>
    /\ UNCHANGED other_vars

-----------------------------------------------------------------------------
(***************************************************************************)
(* Save Entire Workout cut short after n of its log_set calls.             *)
(***************************************************************************)
\* a log_set raises (the store is locked, full, gone): the exception ends
\* the run, session_state stays as it was
SaveRaises(n) ==
    /\ LoggingShown
    /\ set_seq + LogSize(workout_log) <= MaxRows
    /\ n \in 0..(Len(SaveCalls(workout_log)) - 1)
    /\ workout_sets' = SaveLoop(workout_sets, set_seq, user_id,
                                current_session_id, SaveCalls(workout_log), n)
    /\ set_seq' = set_seq + n
    /\ msg' = MsgException
    /\ UNCHANGED << users, exercises, sessions, session_seq, user_id, is_admin,
                    current_session_id, workout_log, current_exercise,
                    exercise_selector, confirm_delete >>
    /\ UNCHANGED other_vars

\* the process stops: the store keeps what was committed, the next process
\* starts with a fresh st.session_state
SaveProcessStops(n) ==
    /\ LoggingShown
    /\ set_seq + LogSize(workout_log) <= MaxRows
    /\ n \in 0..(Len(SaveCalls(workout_log)) - 1)
    /\ workout_sets' = SaveLoop(workout_sets, set_seq, user_id,
                                current_session_id, SaveCalls(workout_log), n)
    /\ set_seq' = set_seq + n
    /\ user_id' = None
    /\ is_admin' = FALSE
    /\ current_session_id' = 0
    /\ workout_log' = << >>
    /\ current_exercise' = None
    /\ exercise_selector' = None
    /\ confirm_delete' = None
    /\ msg' = MsgNone
    /\ UNCHANGED << users, exercises, sessions, session_seq >>
    /\ UNCHANGED other_vars

-----------------------------------------------------------------------------
Next ==
    \/ \E u \in users : Login(u)
    \/ \E w \in ProfileWeights : SaveProfile(w)
    \/ Logout
    \/ \E s \in 0..MaxSessions : SelectSession(s)
    \/ CreateSession
    \/ DeleteWorkout
    \/ YesDelete
    \/ CancelDelete
    \/ \E e \in { x.id : x \in exercises } : SelectExercise(e)
    \/ \E f \in FormInputs : AddSet(f)
    \/ DuplicateLastSet
    \/ ClearSets
    \/ SaveEntireWorkout

Spec == Init /\ [][Next]_vars

\* the same with the save cut short by a storage error or a process stop
NextCrash ==
    \/ Next
    \/ \E n \in 0..MaxRows : SaveRaises(n)
    \/ \E n \in 0..MaxRows : SaveProcessStops(n)

SpecCrash == Init /\ [][NextCrash]_vars

\* the buffer handlers alone, with nothing saved and room for MaxBuf tuples
NextBuffer ==
    \/ \E u \in users : Login(u)
    \/ CreateSession
    \/ \E e \in { x.id : x \in exercises } : SelectExercise(e)
    \/ \E f \in FormInputs : AddSetWithin(f, MaxBuf)
    \/ DuplicateLastSetWithin(MaxBuf)
    \/ ClearSets

SpecBuffer == Init /\ [][NextBuffer]_vars

-----------------------------------------------------------------------------
(***************************************************************************)
(* Accounts: create_user, authenticate_user, get_user_id, and the sign-up  *)
(* and login forms of the sidebar.                                         *)
(***************************************************************************)
\* what can be typed into the username and password fields
Usernames == { "", "ann", "cat", "dan" }
Passwords == { "pw-a", "pw-b" }
Salts     == { "s1", "s2" }

\* the INSERT of create_user on a table without UNIQUE(username)
create_user_no_unique(us, seq, username, password, salt) ==
    [ users |-> us \cup { [ id |-> seq + 1, username |-> username,
                            password_hash |-> hash_password(password, salt),
                            is_admin |-> 0, weight_kg |-> NULL ] },
      seq   |-> seq + 1,
      val   |-> << TRUE, seq + 1 >> ]

\* create_user: the users table, its sequence and the returned pair.
\* UNIQUE(username) makes the INSERT raise IntegrityError on a name in use.
create_user(us, seq, username, password, salt) ==
    IF \E u \in us : u.username = username
    THEN [ users |-> us, seq |-> seq, val |-> << FALSE, None >> ]
    ELSE [ users |-> us \cup { [ id |-> seq + 1, username |-> username,
                                 password_hash |-> hash_password(password, salt),
                                 is_admin |-> 0, weight_kg |-> NULL ] },
           seq   |-> seq + 1,
           val   |-> << TRUE, seq + 1 >> ]

\* authenticate_user without verify_password
authenticate_user_unverified(us, username, password) ==
    LET rows == { u \in us : u.username = username }
    IN  IF rows # {}
        THEN LET row == CHOOSE r \in rows : TRUE IN << row.id, row.is_admin >>
        ELSE << None, None >>

\* authenticate_user: (id, is_admin) or (None, None)
authenticate_user(us, username, password) ==
    LET rows == { u \in us : u.username = username }
    IN  IF rows # {}
           /\ verify_password(password, (CHOOSE r \in rows : TRUE).password_hash)
        THEN LET row == CHOOSE r \in rows : TRUE IN << row.id, row.is_admin >>
        ELSE << None, None >>

\* get_user_id: (id, is_admin) or (None, None)
get_user_id(us, username) ==
    LET rows == { u \in us : u.username = username }
    IN  IF rows # {}
        THEN LET row == CHOOSE r \in rows : TRUE IN << row.id, row.is_admin >>
        ELSE << None, None >>

\* the frame of a step of the accounts: nothing but users, its sequence,
\* the login state and the page
AccountsFrame ==
    UNCHANGED << exercises, sessions, session_seq, workout_sets, set_seq,
                 confirm_delete, categories, category_seq, exercise_seq,
                 exercise_categories, schema, procs >>

\* create_user called with a name and a password
CallCreateUser(username, password, salt) ==
    LET r == create_user(users, user_seq, username, password, salt)
    IN  /\ username # ""
        /\ r.seq <= MaxUsers
        /\ users' = r.users
        /\ user_seq' = r.seq
        /\ ret' = [ op |-> "create_user", args |-> << username, password >>,
                    val |-> r.val ]
        /\ UNCHANGED << user_id, is_admin, current_session_id, workout_log,
                        current_exercise, exercise_selector, msg >>
        /\ AccountsFrame

\* authenticate_user called with a name and a password
CallAuthenticate(username, password) ==
    /\ ret' = [ op |-> "authenticate_user", args |-> << username, password >>,
                val |-> authenticate_user(users, username, password) ]
    /\ UNCHANGED << users, user_seq, user_id, is_admin, current_session_id,
                    workout_log, current_exercise, exercise_selector, msg >>
    /\ AccountsFrame

\* Create Account pressed on the sign-up form
SignUp(new_username, new_password, confirm_password, salt) ==
    /\ user_id = None
    /\ IF new_username = ""
       THEN /\ msg' = MsgFillAll
            /\ UNCHANGED << users, user_seq, ret >>
       ELSE IF new_password # confirm_password
       THEN /\ msg' = MsgMismatch
            /\ UNCHANGED << users, user_seq, ret >>
       ELSE IF get_user_id(users, new_username)[1] # None
       THEN /\ msg' = MsgUserExists
            /\ ret' = [ op |-> "get_user_id", args |-> << new_username >>,
                        val |-> get_user_id(users, new_username) ]
            /\ UNCHANGED << users, user_seq >>
       ELSE LET r == create_user(users, user_seq, new_username, new_password,
                                 salt)
            IN  /\ r.seq <= MaxUsers
                /\ users' = r.users
                /\ user_seq' = r.seq
                /\ ret' = [ op |-> "create_user",
                            args |-> << new_username, new_password >>,
                            val |-> r.val ]
                /\ msg' = IF r.val[1] THEN MsgNone ELSE MsgCreateError
    /\ UNCHANGED << user_id, is_admin, current_session_id, workout_log,
                    current_exercise, exercise_selector >>
    /\ AccountsFrame

\* Log In pressed on the login form
LogIn(username, password) ==
    /\ user_id = None
    /\ IF username = ""
       THEN /\ msg' = MsgLoginEmpty
            /\ UNCHANGED << user_id, is_admin, current_session_id, workout_log,
                            current_exercise, exercise_selector, ret >>
       ELSE LET r == authenticate_user(users, username, password)
            IN  /\ ret' = [ op |-> "authenticate_user",
                            args |-> << username, password >>, val |-> r ]
                /\ IF r[1] # None
                   THEN /\ user_id' = r[1]
                        /\ is_admin' = (r[2] = 1)
                        /\ Rerun(r[1], sessions, exercises, 0, workout_log,
                                 current_exercise, exercise_selector)
                        /\ msg' = MsgNone
                   ELSE /\ msg' = MsgLoginInvalid
                        /\ UNCHANGED << user_id, is_admin, current_session_id,
                                        workout_log, current_exercise,
                                        exercise_selector >>
    /\ UNCHANGED << users, user_seq >>
    /\ AccountsFrame

NextAccounts ==
    \/ \E n \in Usernames, p \in Passwords, c \in Passwords, t \in Salts :
           SignUp(n, p, c, t)
    \/ \E n \in Usernames, p \in Passwords : LogIn(n, p)
    \/ Logout
    \/ \E n \in Usernames, p \in Passwords, t \in Salts :
           CallCreateUser(n, p, t)
    \/ \E n \in Usernames, p \in Passwords : CallAuthenticate(n, p)

SpecAccounts == Init /\ [][NextAccounts]_vars

-----------------------------------------------------------------------------
(***************************************************************************)
(* Persistence functions that run several statements on one connection:    *)
(* add_exercise and delete_session.  The statements change the             *)
(* connection's view of the store; conn.commit() makes the view the store, *)
(* and a connection that ends without it (an exception, conn.close(), the  *)
(* process stopping) leaves the store as it was.                           *)
(***************************************************************************)
\* the tables these functions touch
Db ==
    [ exercises |-> exercises, exercise_seq |-> exercise_seq,
      exercise_categories |-> exercise_categories,
      sessions |-> sessions, workout_sets |-> workout_sets ]

\* INSERT INTO exercises on a table without UNIQUE(name)
insert_exercise_no_unique(db, name) ==
    [ db |-> [ db EXCEPT !.exercises = @ \cup { [ id |-> db.exercise_seq + 1,
                                                  name |-> name ] },
                         !.exercise_seq = @ + 1 ],
      raised |-> FALSE ]

\* INSERT INTO exercises (name, description): IntegrityError on a name in use
insert_exercise(db, name) ==
    IF \E e \in db.exercises : e.name = name
    THEN [ db |-> db, raised |-> TRUE ]
    ELSE [ db |-> [ db EXCEPT !.exercises = @ \cup { [ id |-> db.exercise_seq + 1,
                                                       name |-> name ] },
                              !.exercise_seq = @ + 1 ],
           raised |-> FALSE ]

\* INSERT INTO exercise_categories for c.lastrowid: IntegrityError on a pair
\* that is there
insert_exercise_category(db, cat_id) ==
    LET row == [ exercise_id |-> db.exercise_seq, category_id |-> cat_id ]
    IN  IF row \in db.exercise_categories
        THEN [ db |-> db, raised |-> TRUE ]
        ELSE [ db |-> [ db EXCEPT !.exercise_categories = @ \cup { row } ],
               raised |-> FALSE ]

\* the statements of add_exercise, in order
add_exercise_statements(name, category_ids) ==
    << [ op |-> "insert_exercise", arg |-> name ] >>
    \o [ i \in 1..Len(category_ids) |->
            [ op |-> "insert_exercise_category", arg |-> category_ids[i] ] ]
    \o << [ op |-> "commit", arg |-> None ] >>

\* the statements of delete_session, in order
delete_session_statements(session_id) ==
    << [ op |-> "delete_sets", arg |-> session_id ],
       [ op |-> "delete_session", arg |-> session_id ],
       [ op |-> "commit", arg |-> None ] >>

\* c.execute of one statement, or conn.commit()
Execute(db, st) ==
    CASE st.op = "insert_exercise" -> insert_exercise(db, st.arg)
      [] st.op = "insert_exercise_category" ->
             insert_exercise_category(db, st.arg)
      [] st.op = "delete_sets" ->
             [ db |-> [ db EXCEPT !.workout_sets =
                                      delete_session_sets(@, st.arg) ],
               raised |-> FALSE ]
      [] st.op = "delete_session" ->
             [ db |-> [ db EXCEPT !.sessions = delete_session_row(@, st.arg) ],
               raised |-> FALSE ]
      [] st.op = "commit" -> [ db |-> db, raised |-> FALSE ]

\* the connection's view after the first n statements, up to one that raises
RECURSIVE Work(_, _, _)
Work(db, stmts, n) ==
    IF n = 0 THEN [ db |-> db, raised |-> FALSE ]
    ELSE LET w == Work(db, stmts, n - 1)
         IN  IF w.raised THEN w ELSE Execute(w.db, stmts[n])

\* every statement committed as it is executed
TransactionAutocommit(db, stmts, n) == Work(db, stmts, n).db

\* the store after a connection that ran the first n statements: committed
\* when all of them ran, conn.commit() being the last, and none raised; as
\* it was otherwise
Transaction(db, stmts, n) ==
    LET w == Work(db, stmts, n)
    IN  IF n = Len(stmts) /\ ~w.raised THEN w.db ELSE db

\* add_exercise: the store, and the message of its except clause
add_exercise(db, name, category_ids) ==
    LET stmts == add_exercise_statements(name, category_ids)
    IN  [ db  |-> Transaction(db, stmts, Len(stmts)),
          msg |-> IF Work(db, stmts, Len(stmts)).raised
                  THEN MsgExerciseExists ELSE MsgNone ]

\* delete_session
delete_session(db, session_id) ==
    LET stmts == delete_session_statements(session_id)
    IN  Transaction(db, stmts, Len(stmts))

\* delete_workout_sets with the ids taken for set numbers
delete_workout_sets_by_number(ws, set_ids) ==
    IF set_ids = {} THEN ws ELSE { r \in ws : r.set_number \notin set_ids }

\* delete_workout_sets with an empty list deleting without a WHERE
delete_workout_sets_all_on_empty(ws, set_ids) ==
    IF set_ids = {} THEN {} ELSE { r \in ws : r.id \notin set_ids }

\* delete_workout_sets
delete_workout_sets(ws, set_ids) ==
    IF set_ids = {} THEN ws ELSE { r \in ws : r.id \notin set_ids }

-----------------------------------------------------------------------------
(***************************************************************************)
(* The persistence functions called on the store, with the arguments any   *)
(* caller can give them, and the two transactions stopping part-way.       *)
(***************************************************************************)
\* names and category selections of the new-exercise form
ExerciseNames   == { "Pull Up", "Squat" }
CategoryChoices == { << >>, << 1 >>, << 2, 1 >> }

\* what log_set is called with next to session and set number: the
\* exercise, and weight, reps and RPE
LoggedExercises == { 1 }
LoggedTuple     == << 80, 5, 5 >>

StoreWrite(db) ==
    /\ exercises' = db.exercises
    /\ exercise_seq' = db.exercise_seq
    /\ exercise_categories' = db.exercise_categories
    /\ sessions' = db.sessions
    /\ workout_sets' = db.workout_sets

StoreFrame ==
    UNCHANGED << users, user_seq, categories, category_seq, user_id, is_admin,
                 current_session_id, workout_log, current_exercise,
                 exercise_selector, confirm_delete, msg, schema, procs >>

CallAddExercise(name, category_ids) ==
    LET r == add_exercise(Db, name, category_ids)
    IN  /\ r.db.exercise_seq <= MaxExercises
        /\ StoreWrite(r.db)
        /\ ret' = [ op |-> "add_exercise", args |-> << name, category_ids >>,
                    val |-> None, err |-> r.msg ]
        /\ UNCHANGED << session_seq, set_seq >>
        /\ StoreFrame

\* add_exercise ending after n of its statements, before conn.commit()
StopAddExercise(name, category_ids, n) ==
    LET stmts == add_exercise_statements(name, category_ids)
    IN  /\ n \in 0..(Len(stmts) - 1)
        /\ ~Work(Db, stmts, n).raised
        /\ Work(Db, stmts, n).db.exercise_seq <= MaxExercises
        /\ StoreWrite(Transaction(Db, stmts, n))
        /\ ret' = [ op |-> "add_exercise", args |-> << name, category_ids, n >>,
                    val |-> None, err |-> MsgStopped ]
        /\ UNCHANGED << session_seq, set_seq >>
        /\ StoreFrame

CallCreateSession(uid) ==
    /\ uid \in { u.id : u \in users }
    /\ session_seq < MaxSessions
    /\ sessions' = create_session(sessions, session_seq, uid, Today)
    /\ session_seq' = session_seq + 1
    /\ ret' = [ op |-> "create_session", args |-> << uid >>,
                val |-> session_seq + 1, err |-> MsgNone ]
    /\ UNCHANGED << exercises, exercise_seq, exercise_categories, workout_sets,
                    set_seq >>
    /\ StoreFrame

\* log_set for a session of the store, with its owner as user
CallLogSet(sid, eid, set_number) ==
    /\ \E x \in sessions : x.id = sid
    /\ eid \in { e.id : e \in exercises }
    /\ set_seq < MaxRows
    /\ workout_sets' =
           log_set(workout_sets, set_seq,
                   (CHOOSE x \in sessions : x.id = sid).user_id, sid, eid,
                   LoggedTuple[1], LoggedTuple[2], set_number, LoggedTuple[3])
    /\ set_seq' = set_seq + 1
    /\ ret' = [ op |-> "log_set", args |-> << sid, eid, set_number >>,
                val |-> None, err |-> MsgNone ]
    /\ UNCHANGED << exercises, exercise_seq, exercise_categories, sessions,
                    session_seq >>
    /\ StoreFrame

CallDeleteSession(sid) ==
    /\ StoreWrite(delete_session(Db, sid))
    /\ ret' = [ op |-> "delete_session", args |-> << sid >>, val |-> None,
                err |-> MsgNone ]
    /\ UNCHANGED << session_seq, set_seq >>
    /\ StoreFrame

\* delete_session ending after n of its statements, before conn.commit()
StopDeleteSession(sid, n) ==
    LET stmts == delete_session_statements(sid)
    IN  /\ n \in 0..(Len(stmts) - 1)
        /\ StoreWrite(Transaction(Db, stmts, n))
        /\ ret' = [ op |-> "delete_session", args |-> << sid, n >>,
                    val |-> None, err |-> MsgStopped ]
        /\ UNCHANGED << session_seq, set_seq >>
        /\ StoreFrame

CallDeleteWorkoutSets(set_ids) ==
    /\ workout_sets' = delete_workout_sets(workout_sets, set_ids)
    /\ ret' = [ op |-> "delete_workout_sets", args |-> << set_ids >>,
                val |-> None, err |-> MsgNone ]
    /\ UNCHANGED << exercises, exercise_seq, exercise_categories, sessions,
                    session_seq, set_seq >>
    /\ StoreFrame

NextStore ==
    \/ \E name \in ExerciseNames, cats \in CategoryChoices :
           CallAddExercise(name, cats)
    \/ \E name \in ExerciseNames, cats \in CategoryChoices, n \in 0..3 :
           StopAddExercise(name, cats, n)
    \/ \E uid \in 1..MaxUsers : CallCreateSession(uid)
    \/ \E sid \in 1..MaxSessions, eid \in LoggedExercises, k \in 1..2 :
           CallLogSet(sid, eid, k)
    \/ \E sid \in 1..MaxSessions : CallDeleteSession(sid)
    \/ \E sid \in 1..MaxSessions, n \in 0..2 : StopDeleteSession(sid, n)
    \/ \E ids \in SUBSET (1..MaxRows) : CallDeleteWorkoutSets(ids)

SpecStore == Init /\ [][NextStore]_vars

-----------------------------------------------------------------------------
(***************************************************************************)
(* Startup: init_db(), upgrade_schema() and the seeding of the default     *)
(* categories, run by every process that starts on the store, statement by *)
(* statement.  sqlite3 runs CREATE, ALTER and PRAGMA outside a transaction *)
(* unless one is open, and opens one before an UPDATE or INSERT; an open   *)
(* transaction keeps other connections from writing until it ends, and     *)
(* they wait for that.  A statement that raises ends the process's startup *)
(* and rolls its open transaction back.                                    *)
(***************************************************************************)
\* what init_db of src/utils/db_sqlite.py creates
LegacySchema ==
    [ users               |-> { "id", "username" },
      categories          |-> { "id", "name" },
      exercises           |-> { "id", "name", "description" },
      exercise_categories |-> { "exercise_id", "category_id" },
      sessions            |-> {},
      workout_sets        |-> { "id", "user_id", "exercise_id", "date", "weight",
                                "reps", "set_number", "rp_rating" } ]

\* no table yet
EmptySchema == [ t \in Tables |-> {} ]

\* rows of a store written under the older schema
LegacyUsers == { [ id |-> 1, username |-> "old" ] }
LegacySets  ==
    { [ id |-> 1, user_id |-> 1, exercise_id |-> 1, date |-> "2024-05-01",
        weight |-> 80, reps |-> 5, set_number |-> 1, rp_rating |-> 7 ] }

MsgDuplicateColumn == "duplicate column name"
MsgNoSuchColumn    == "no such column"

\* CREATE TABLE IF NOT EXISTS, for each table of init_db
init_db(sch) ==
    [ t \in Tables |-> IF sch[t] = {} THEN InitDbSchema[t] ELSE sch[t] ]

\* a row with one more column
WithColumn(r, col, value) ==
    [ c \in DOMAIN r \cup { col } |-> IF c = col THEN value ELSE r[c] ]

\* a row with a column under a new name, its value not carried over
RenamedEmpty(r, old, new) ==
    [ c \in (DOMAIN r \ { old }) \cup { new } |->
        IF c = new THEN NULL ELSE r[c] ]

\* a row with a column under a new name
Renamed(r, old, new) ==
    [ c \in (DOMAIN r \ { old }) \cup { new } |->
        IF c = new THEN r[old] ELSE r[c] ]

\* ALTER TABLE table ADD COLUMN col ... DEFAULT default, on a view
\* [schema, users, workout_sets]
add_column(view, table, col, default) ==
    IF col \in view.schema[table]
    THEN [ view |-> view, err |-> MsgDuplicateColumn ]
    ELSE [ view |-> [ view EXCEPT
                        !.schema[table] = @ \cup { col },
                        ![table] = { WithColumn(r, col, default) : r \in @ } ],
           err  |-> "" ]

\* ALTER TABLE table RENAME COLUMN old TO new
rename_column(view, table, old, new) ==
    IF old \notin view.schema[table]
    THEN [ view |-> view, err |-> MsgNoSuchColumn ]
    ELSE IF new \in view.schema[table]
    THEN [ view |-> view, err |-> MsgDuplicateColumn ]
    ELSE [ view |-> [ view EXCEPT
                        !.schema[table] = (@ \ { old }) \cup { new },
                        ![table] = { Renamed(r, old, new) : r \in @ } ],
           err  |-> "" ]

\* INSERT INTO categories on a table without UNIQUE(name)
add_category_no_unique(cats, seq, name) ==
    [ categories |-> cats \cup { [ id |-> seq + 1, name |-> name ] },
      seq |-> seq + 1 ]

\* add_category: the IntegrityError of a name in use is passed over
add_category(cats, seq, name) ==
    IF \E c \in cats : c.name = name
    THEN [ categories |-> cats, seq |-> seq ]
    ELSE [ categories |-> cats \cup { [ id |-> seq + 1, name |-> name ] },
           seq |-> seq + 1 ]

\* the schema one run of upgrade_schema leaves
upgrade_schema(sch) ==
    [ sch EXCEPT
        !.users = @ \cup { "password_hash" }
                    \cup { profile_columns[i] : i \in 1..Len(profile_columns) },
        !.workout_sets =
            (IF "rp_rating" \in @ THEN (@ \ { "rp_rating" }) \cup { "rpe_rating" }
             ELSE @) \cup { "session_id", "user_id" } ]

\* what the connection of process p sees
View(p) ==
    IF procs[p].txn = << >>
    THEN [ schema |-> schema, users |-> users, workout_sets |-> workout_sets ]
    ELSE procs[p].txn[1]

\* no other connection has a transaction open
LockFree(p) == \A q \in Procs \ { p } : procs[q].txn = << >>

StartupFrame ==
    UNCHANGED << exercises, exercise_seq, exercise_categories, sessions,
                 session_seq, set_seq, user_seq, ret, user_id, is_admin,
                 current_session_id, workout_log, current_exercise,
                 exercise_selector, confirm_delete, msg >>

StoreUnchanged == UNCHANGED << schema, users, workout_sets >>

\* process p goes on to (pc, i)
Goto(p, pc, i) == procs' = [ procs EXCEPT ![p].pc = pc, ![p].i = i ]

\* the outcome r of an ALTER by process p, which then goes on to (pc, i):
\* an error ends the startup; a view goes to the open transaction, or to the
\* store when none is open
Altered(p, r, pc, i) ==
    IF r.err # ""
    THEN /\ procs' = [ procs EXCEPT ![p].pc = "error", ![p].txn = << >>,
                                     ![p].err = r.err ]
         /\ StoreUnchanged
    ELSE IF procs[p].txn # << >>
    THEN /\ procs' = [ procs EXCEPT ![p].pc = pc, ![p].i = i,
                                     ![p].txn = << r.view >> ]
         /\ StoreUnchanged
    ELSE /\ LockFree(p)
         /\ schema' = r.view.schema
         /\ users' = r.view.users
         /\ workout_sets' = r.view.workout_sets
         /\ Goto(p, pc, i)

InitDb(p) ==
    /\ procs[p].pc = "init_db"
    /\ LockFree(p)
    /\ schema' = init_db(schema)
    /\ Goto(p, "pragma_users", 0)
    /\ UNCHANGED << users, workout_sets, categories, category_seq >>
    /\ StartupFrame

\* PRAGMA table_info(users)
PragmaUsers(p) ==
    /\ procs[p].pc = "pragma_users"
    /\ procs' = [ procs EXCEPT ![p].pc = "password_hash",
                               ![p].columns = View(p).schema.users ]
    /\ StoreUnchanged
    /\ UNCHANGED << categories, category_seq >>
    /\ StartupFrame

\* if 'password_hash' not in columns: ALTER TABLE users ADD COLUMN
AddPasswordHash(p) ==
    /\ procs[p].pc = "password_hash"
    /\ IF "password_hash" \in procs[p].columns
       THEN Goto(p, "profile", 1) /\ StoreUnchanged
       ELSE Altered(p, add_column(View(p), "users", "password_hash", ""),
                    "update_legacy", 0)
    /\ UNCHANGED << categories, category_seq >>
    /\ StartupFrame

\* UPDATE users SET password_hash = 'legacy': opens the transaction
UpdateLegacy(p) ==
    /\ procs[p].pc = "update_legacy"
    /\ LockFree(p)
    /\ procs' = [ procs EXCEPT
                    ![p].pc = "profile", ![p].i = 1,
                    ![p].txn = << [ View(p) EXCEPT !.users =
                                     { [ r EXCEPT !["password_hash"] = "legacy" ] :
                                       r \in @ } ] >> ]
    /\ StoreUnchanged
    /\ UNCHANGED << categories, category_seq >>
    /\ StartupFrame

\* for col in profile_columns: if col not in columns: ALTER TABLE users ADD
AddProfileColumn(p) ==
    /\ procs[p].pc = "profile"
    /\ LET i    == procs[p].i
           col  == profile_columns[i]
           pc   == IF i < Len(profile_columns) THEN "profile" ELSE "pragma_sets"
           next == IF i < Len(profile_columns) THEN i + 1 ELSE 0
       IN  IF col \in procs[p].columns
           THEN Goto(p, pc, next) /\ StoreUnchanged
           ELSE Altered(p, add_column(View(p), "users", col, NULL), pc, next)
    /\ UNCHANGED << categories, category_seq >>
    /\ StartupFrame

\* PRAGMA table_info(workout_sets)
PragmaSets(p) ==
    /\ procs[p].pc = "pragma_sets"
    /\ procs' = [ procs EXCEPT ![p].pc = "rename",
                               ![p].columns = View(p).schema.workout_sets ]
    /\ StoreUnchanged
    /\ UNCHANGED << categories, category_seq >>
    /\ StartupFrame

\* if 'rp_rating' in columns: ALTER TABLE workout_sets RENAME COLUMN
RenameRpRating(p) ==
    /\ procs[p].pc = "rename"
    /\ IF "rp_rating" \notin procs[p].columns
       THEN Goto(p, "session_id", 0) /\ StoreUnchanged
       ELSE Altered(p, rename_column(View(p), "workout_sets", "rp_rating",
                                     "rpe_rating"),
                    "session_id", 0)
    /\ UNCHANGED << categories, category_seq >>
    /\ StartupFrame

\* if 'session_id' not in columns: ALTER TABLE workout_sets ADD COLUMN
AddSessionId(p) ==
    /\ procs[p].pc = "session_id"
    /\ IF "session_id" \in procs[p].columns
       THEN Goto(p, "user_id", 0) /\ StoreUnchanged
       ELSE Altered(p, add_column(View(p), "workout_sets", "session_id", NULL),
                    "user_id", 0)
    /\ UNCHANGED << categories, category_seq >>
    /\ StartupFrame

\* if 'user_id' not in columns: ALTER TABLE workout_sets ADD COLUMN
AddUserId(p) ==
    /\ procs[p].pc = "user_id"
    /\ IF "user_id" \in procs[p].columns
       THEN Goto(p, "commit", 0) /\ StoreUnchanged
       ELSE Altered(p, add_column(View(p), "workout_sets", "user_id", NULL),
                    "commit", 0)
    /\ UNCHANGED << categories, category_seq >>
    /\ StartupFrame

\* conn.commit() of upgrade_schema
CommitUpgrade(p) ==
    /\ procs[p].pc = "commit"
    /\ schema' = View(p).schema
    /\ users' = View(p).users
    /\ workout_sets' = View(p).workout_sets
    /\ procs' = [ procs EXCEPT ![p].pc = "seed", ![p].i = 1,
                               ![p].txn = << >> ]
    /\ UNCHANGED << categories, category_seq >>
    /\ StartupFrame

\* for cat in default_cats: add_category(cat)
SeedCategory(p) ==
    /\ procs[p].pc = "seed"
    /\ LockFree(p)
    /\ LET i == procs[p].i
           r == add_category(categories, category_seq, default_cats[i])
       IN  /\ categories' = r.categories
           /\ category_seq' = r.seq
           /\ IF i < Len(default_cats) THEN Goto(p, "seed", i + 1)
              ELSE Goto(p, "done", 0)
    /\ StoreUnchanged
    /\ StartupFrame

\* a store of the older schema, a store of the current schema with its
\* categories, or no store yet; every process about to start
InitStartup ==
    /\ \/ /\ schema = LegacySchema
          /\ users = LegacyUsers
          /\ user_seq = 1
          /\ workout_sets = LegacySets
          /\ set_seq = 1
          /\ categories = {}
          /\ category_seq = 0
       \/ /\ schema = CurrentSchema
          /\ users = { [ id |-> 1, username |-> "ann",
                         password_hash |-> hash_password("pw-a", "s1"),
                         is_admin |-> 1, weight_kg |-> 70 ] }
          /\ user_seq = 1
          /\ workout_sets = {}
          /\ set_seq = 0
          /\ categories = SeededCategories
          /\ category_seq = Len(default_cats)
       \/ /\ schema = EmptySchema
          /\ users = {}
          /\ user_seq = 0
          /\ workout_sets = {}
          /\ set_seq = 0
          /\ categories = {}
          /\ category_seq = 0
    /\ procs = [ p \in Procs |-> [ Started EXCEPT !.pc = "init_db" ] ]
    /\ exercises = {}
    /\ exercise_seq = 0
    /\ exercise_categories = {}
    /\ sessions = {}
    /\ session_seq = 0
    /\ ret = NoRet
    /\ user_id = None
    /\ is_admin = FALSE
    /\ current_session_id = 0
    /\ workout_log = << >>
    /\ current_exercise = None
    /\ exercise_selector = None
    /\ confirm_delete = None
    /\ msg = MsgNone

NextStartup ==
    \/ \E p \in Procs : InitDb(p)
    \/ \E p \in Procs : PragmaUsers(p)
    \/ \E p \in Procs : AddPasswordHash(p)
    \/ \E p \in Procs : UpdateLegacy(p)
    \/ \E p \in Procs : AddProfileColumn(p)
    \/ \E p \in Procs : PragmaSets(p)
    \/ \E p \in Procs : RenameRpRating(p)
    \/ \E p \in Procs : AddSessionId(p)
    \/ \E p \in Procs : AddUserId(p)
    \/ \E p \in Procs : CommitUpgrade(p)
    \/ \E p \in Procs : SeedCategory(p)

SpecStartup == InitStartup /\ [][NextStartup]_vars

-----------------------------------------------------------------------------
(***************************************************************************)
(* Reports tab, By Workout Session: the summary metrics of one session.    *)
(***************************************************************************)
\* session_sets['reps'].sum()
RECURSIVE SumReps(_)
SumReps(rows) ==
    IF rows = {} THEN 0
    ELSE LET r == CHOOSE x \in rows : TRUE
         IN  r.reps + SumReps(rows \ {r})

\* the sum of the weights, not multiplied by the reps
RECURSIVE SumWeight(_)
SumWeight(rows) ==
    IF rows = {} THEN 0
    ELSE LET r == CHOOSE x \in rows : TRUE
         IN  r.weight + SumWeight(rows \ {r})

\* (session_sets['weight'] * session_sets['reps']).sum()
RECURSIVE SumVolumeLoad(_)
SumVolumeLoad(rows) ==
    IF rows = {} THEN 0
    ELSE LET r == CHOOSE x \in rows : TRUE
         IN  r.weight * r.reps + SumVolumeLoad(rows \ {r})

\* what the report shows for session sid
by_session_report(ws, exs, sid) ==
    LET session_sets == get_workout_sets_by_session(ws, exs, sid)
    IN  IF session_sets = {}
        THEN [ info |-> "No sets in this session." ]
        ELSE [ total_volume_load |-> SumVolumeLoad(session_sets),
               total_sets        |-> Cardinality(session_sets),
               total_reps        |-> SumReps(session_sets) ]

-----------------------------------------------------------------------------
(***************************************************************************)
(* The numbers of the 1RM column.  pandas divides as floats: x / 0 is inf  *)
(* for x > 0 and nan for x = 0, and no exception is raised.  A value is a  *)
(* fraction in lowest terms with den >= 0; 1/0 is inf, 0/0 is nan.         *)
(***************************************************************************)
RECURSIVE Gcd(_, _)
Gcd(a, b) == IF b = 0 THEN a ELSE Gcd(b, a % b)

Abs(n) == IF n < 0 THEN 0 - n ELSE n

NaN == [ num |-> 0, den |-> 0 ]
Inf == [ num |-> 1, den |-> 0 ]

\* num / den
Fraction(num, den) ==
    IF den = 0
    THEN IF num = 0 THEN NaN
         ELSE IF num > 0 THEN Inf ELSE [ num |-> 0 - 1, den |-> 0 ]
    ELSE LET g == Gcd(Abs(num), Abs(den))
             n == IF den < 0 THEN 0 - num ELSE num
         IN  [ num |-> IF n < 0 THEN 0 - (Abs(n) \div g) ELSE n \div g,
               den |-> Abs(den) \div g ]

\* a < b, for values that are not nan
Less(a, b) ==
    IF a.den = 0 /\ b.den = 0 THEN a.num < b.num
    ELSE a.num * b.den < b.num * a.den

\* Series.max(): nan is skipped, and is the result when nothing is left
SeriesMax(values) ==
    LET left == values \ { NaN }
    IN  IF left = {} THEN NaN
        ELSE CHOOSE m \in left : \A v \in left : ~Less(m, v)

\* data['weight'] * 36 / (37 - data['reps'])
OneRM(weight, reps) == Fraction(weight * 36, 37 - reps)

(***************************************************************************)
(* Reports tab.  The tab is drawn on every run of the script, from the     *)
(* store as it is then and the choice in its selectbox.                    *)
(***************************************************************************)
MsgNoData == "No data for this exercise."

\* get_user_workout_sets without its WHERE ws.user_id = ?
get_user_workout_sets_of_anyone(ws, exs, sess, uid, eid) ==
    { r \in ws : /\ eid # None => r.exercise_id = eid
                 /\ \E e \in exs : e.id = r.exercise_id
                 /\ \E s \in sess : s.id = r.session_id }

\* get_user_workout_sets: the user's sets, of one exercise if one is given,
\* joined with their exercise and their session
get_user_workout_sets(ws, exs, sess, uid, eid) ==
    { r \in ws : /\ r.user_id = uid
                 /\ eid # None => r.exercise_id = eid
                 /\ \E e \in exs : e.id = r.exercise_id
                 /\ \E s \in sess : s.id = r.session_id }

\* the session_date column of a joined row
session_date(sess, r) == (CHOOSE s \in sess : s.id = r.session_id).date

\* By Exercise: the two charts and the ids of the Logged Sets list
by_exercise_report(ws, exs, sess, uid, eid) ==
    LET data  == get_user_workout_sets(ws, exs, sess, uid, eid)
        dates == { session_date(sess, r) : r \in data }
        on(d) == { r \in data : session_date(sess, r) = d }
    IN  [ info |-> IF data = {} THEN MsgNoData ELSE MsgNone,
          daily_max |->
              [ d \in dates |->
                  SeriesMax({ OneRM(r.weight, r.reps) : r \in on(d) }) ],
          daily_volume_load |-> [ d \in dates |-> SumVolumeLoad(on(d)) ],
          logged_sets |-> { r.id : r \in data } ]

\* By Workout Session, Exercise Details: ex_1rm of every exercise of the
\* session, and the ids of the Delete Sets list
exercise_details(ws, exs, sid) ==
    LET session_sets == get_workout_sets_by_session(ws, exs, sid)
        group(e)     == { r \in session_sets : r.exercise_id = e }
    IN  [ info |-> IF session_sets = {} THEN "No sets in this session."
                   ELSE MsgNone,
          ex_1rm |->
              [ e \in { r.exercise_id : r \in session_sets } |->
                  SeriesMax({ OneRM(r.weight, r.reps) : r \in group(e) }) ],
          delete_sets |-> { r.id : r \in session_sets } ]

\* What the user can have in the set-input widgets in the runs that feed the
\* reports: a weight and reps from the widget's minimum of 1 upwards; the
\* widget has no maximum.
ReportInputs ==
    { [bodyweight |-> FALSE, added_weight |-> 100, reps |-> 5,  rpe |-> 5],
      [bodyweight |-> FALSE, added_weight |-> 100, reps |-> 37, rpe |-> 5] }

\* the state after a handler of the tab has deleted the sets set_ids
DeletedSets(set_ids) ==
    /\ workout_sets' = delete_workout_sets(workout_sets, set_ids)
    /\ Rerun(user_id, sessions, exercises, current_session_id, workout_log,
             current_exercise, exercise_selector)
    /\ msg' = MsgNone
    /\ UNCHANGED << users, exercises, sessions, session_seq, set_seq, user_id,
                    is_admin, confirm_delete >>
    /\ UNCHANGED other_vars

\* By Exercise: Delete Selected Sets, with the boxes of set_ids ticked
DeleteSelectedSets(e, set_ids) ==
    /\ user_id # None
    /\ e \in { x.id : x \in exercises }
    /\ set_ids # {}
    /\ set_ids \subseteq by_exercise_report(workout_sets, exercises, sessions,
                                            user_id, e).logged_sets
    /\ DeletedSets(set_ids)

\* By Workout Session: Delete Selected Sets from Session
DeleteSelectedSetsFromSession(s, set_ids) ==
    /\ user_id # None
    /\ s \in { x.id : x \in get_user_sessions(sessions, user_id) }
    /\ set_ids # {}
    /\ set_ids \subseteq exercise_details(workout_sets, exercises, s).delete_sets
    /\ DeletedSets(set_ids)

NextReports ==
    \/ \E u \in users : Login(u)
    \/ Logout
    \/ \E d \in Dates : CreateSessionOn(d)
    \/ \E s \in 0..MaxSessions : SelectSession(s)
    \/ DeleteWorkout
    \/ YesDelete
    \/ CancelDelete
    \/ \E e \in { x.id : x \in exercises } : SelectExercise(e)
    \/ \E f \in ReportInputs : AddSet(f)
    \/ SaveEntireWorkout
    \/ \E e \in { x.id : x \in exercises }, set_ids \in SUBSET (1..MaxRows) :
          DeleteSelectedSets(e, set_ids)
    \/ \E s \in 1..MaxSessions, set_ids \in SUBSET (1..MaxRows) :
          DeleteSelectedSetsFromSession(s, set_ids)

SpecReports == Init /\ [][NextReports]_vars

-----------------------------------------------------------------------------
(***************************************************************************)
(* Exercises tab: the Add New Exercise form, drawn for admins only, next   *)
(* to the sign-up, login and logging handlers of one browser session.      *)
(***************************************************************************)
\* the Exercises tab with the form drawn for every logged-in user
AddNewExerciseByAnyone(ex_name, selected_cats) ==
    LET r == add_exercise(Db, ex_name, selected_cats)
    IN  /\ user_id # None
        /\ ex_name # ""
        /\ selected_cats \in CategoryChoices
        /\ r.db.exercise_seq <= MaxExercises
        /\ StoreWrite(r.db)
        /\ Rerun(user_id, sessions, r.db.exercises, current_session_id,
                 workout_log, current_exercise, exercise_selector)
        /\ msg' = MsgNone
        /\ UNCHANGED << users, session_seq, set_seq, user_id, is_admin,
                        confirm_delete, user_seq, categories, category_seq,
                        ret, schema, procs >>

\* Add Exercise pressed on the form of the Exercises tab, which is drawn
\* under "if st.session_state.is_admin:"; "if submitted and ex_name:" calls
\* add_exercise, whose outcome the handler ignores, and st.rerun() redraws
\* the page, dropping the messages of the run.
AddNewExercise(ex_name, selected_cats) ==
    LET r == add_exercise(Db, ex_name, selected_cats)
    IN  /\ user_id # None
        /\ is_admin
        /\ ex_name # ""
        /\ selected_cats \in CategoryChoices
        /\ r.db.exercise_seq <= MaxExercises
        /\ StoreWrite(r.db)
        /\ Rerun(user_id, sessions, r.db.exercises, current_session_id,
                 workout_log, current_exercise, exercise_selector)
        /\ msg' = MsgNone
        /\ UNCHANGED << users, session_seq, set_seq, user_id, is_admin,
                        confirm_delete, user_seq, categories, category_seq,
                        ret, schema, procs >>

NextAdmin ==
    \/ \E n \in Usernames, p \in Passwords, c \in Passwords, t \in Salts :
           SignUp(n, p, c, t)
    \/ \E n \in Usernames, p \in Passwords : LogIn(n, p)
    \/ Logout
    \/ \E w \in ProfileWeights : SaveProfile(w)
    \/ \E n \in ExerciseNames \cup { "" }, cs \in CategoryChoices :
           AddNewExercise(n, cs)
    \/ CreateSession
    \/ \E s \in 0..MaxSessions : SelectSession(s)
    \/ \E e \in { x.id : x \in exercises } : SelectExercise(e)

SpecAdmin == Init /\ [][NextAdmin]_vars

-----------------------------------------------------------------------------
(***************************************************************************)
(* Properties.                                                             *)
(***************************************************************************)
ExerciseIds == { x.id : x \in exercises }

SessionIds == { s.id : s \in sessions }

\* a workout_sets row without its id
Columns(r) ==
    [ user_id |-> r.user_id, session_id |-> r.session_id,
      exercise_id |-> r.exercise_id, weight |-> r.weight, reps |-> r.reps,
      set_number |-> r.set_number, rpe_rating |-> r.rpe_rating ]

\* one row (without id) for every position of every buffered sequence
BufferRows(log, uid, sid) ==
    UNION { { [ user_id |-> uid, session_id |-> sid, exercise_id |-> e,
                weight |-> LogGet(log, e)[i][1], reps |-> LogGet(log, e)[i][2],
                set_number |-> i, rpe_rating |-> LogGet(log, e)[i][3] ] :
              i \in DOMAIN LogGet(log, e) } : e \in LogKeys(log) }

BufferEmpty(log) == \A e \in ExerciseIds : LogGet(log, e) = << >>

\* the rows a step adds to workout_sets
Added == workout_sets' \ workout_sets

\* C1: a successful Save Entire Workout persists exactly one row per buffered
\* tuple: the rows it adds are new, as many as there are buffered tuples, and
\* they are the tuples' weight, reps and rpe with the logged-in user, the
\* current session, the exercise and the tuple's 1-based position in that
\* exercise's sequence as set_number; no stored row is changed or removed.
C1_CommitPersistsBuffer ==
    [][ (SaveEntireWorkout /\ workout_log # << >>) =>
          /\ workout_sets \subseteq workout_sets'
          /\ Cardinality(Added) = LogSize(workout_log)
          /\ \A r \in Added : \A q \in workout_sets' : q.id = r.id => q = r
          /\ { Columns(r) : r \in Added }
               = BufferRows(workout_log, user_id, current_session_id) ]_vars

\* two different tuples of one exercise were saved as sets 1 and 2
C1_Witness ==
    /\ LoggingShown
    /\ BufferEmpty(workout_log)
    /\ \E r1, r2 \in workout_sets :
          /\ r1.session_id = current_session_id
          /\ r2.session_id = current_session_id
          /\ r1.exercise_id = r2.exercise_id
          /\ r1.set_number = 1 /\ r2.set_number = 2
          /\ r1.id + 1 = r2.id
          /\ r1.weight # r2.weight

\* C2: a save is all-or-nothing: every step that adds rows to workout_sets
\* adds the rows of the whole buffer, also when a log_set raises or the
\* process stops in the middle of the loop.
C2_CommitAllOrNothing ==
    [][ Added # {} =>
          { Columns(r) : r \in Added }
            = BufferRows(workout_log, user_id, current_session_id) ]_vars

\* C3: for every session and exercise the set_number values of the stored
\* sets are pairwise distinct and are exactly 1..N, in the order of entry.
C3_SetNumbersContiguous ==
    \A s \in SessionIds : \A e \in ExerciseIds :
        LET rows == { r \in workout_sets :
                        r.session_id = s /\ r.exercise_id = e }
        IN  /\ \A r1, r2 \in rows : r1.set_number = r2.set_number => r1 = r2
            /\ { r.set_number : r \in rows } = 1..Cardinality(rows)
            /\ \A r1, r2 \in rows : r1.id < r2.id => r1.set_number < r2.set_number

\* C4: every stored set names a stored session; for a session id that was
\* given out and deleted, get_workout_sets_by_session returns nothing.
C4_NoOrphanSets ==
    /\ \A r \in workout_sets : r.session_id \in SessionIds
    /\ \A id \in 1..session_seq :
          id \notin SessionIds =>
             get_workout_sets_by_session(workout_sets, exercises, id) = {}

\* sets were saved, and deleting their sessions left none
C4_Witness ==
    /\ set_seq > 0
    /\ workout_sets = {}
    /\ \E id \in 1..session_seq : id \notin SessionIds

\* C5: a stored set's user_id is the user_id of the session it names.
C5_SetOwnerIsSessionOwner ==
    \A r \in workout_sets : \A s \in sessions :
        s.id = r.session_id => s.user_id = r.user_id

\* both users have saved sets, each in a session of their own
C5_Witness ==
    \E r1, r2 \in workout_sets :
        /\ r1.user_id # r2.user_id
        /\ r1.session_id # r2.session_id

\* C6: a step that changes current_session_id leaves every exercise's
\* buffered sequence empty.
C6_SwitchDiscardsBuffer ==
    [][ current_session_id' # current_session_id =>
          BufferEmpty(workout_log') ]_vars

\* sets are buffered for one session and the user switches to another one
C6_Witness ==
    /\ ~BufferEmpty(workout_log)
    /\ ENABLED ( /\ \E s \in SessionIds : SelectSession(s)
                 /\ current_session_id' # 0
                 /\ BufferEmpty(workout_log') )

\* C7: a successful Save Entire Workout leaves every exercise's buffered
\* sequence empty, so that the loops of a save pressed next call log_set
\* for nothing.
C7_CommitEmptiesBuffer ==
    [][ (SaveEntireWorkout /\ workout_log # << >>) =>
          /\ BufferEmpty(workout_log')
          /\ SaveCalls(workout_log') = << >> ]_vars

\* the last row stored is of the current session and the buffer is empty
C7_Witness ==
    /\ LoggingShown
    /\ LogSize(workout_log) = 0
    /\ set_seq > 0
    /\ \E r \in workout_sets :
          r.id = set_seq /\ r.session_id = current_session_id

\* C8: Add Set, Duplicate Last Set and Clear Sets leave the store as it is
\* (and the user and the selected session); a step that adds a row to
\* workout_sets is a Save Entire Workout.
C8_BufferOpsLeaveStore ==
    [][ /\ ( \/ \E f \in FormInputs : AddSet(f)
             \/ DuplicateLastSet
             \/ ClearSets )
            => UNCHANGED << db_vars, user_id, current_session_id >>
        /\ Added # {} => SaveEntireWorkout ]_vars

\* sets are buffered for two exercises and nothing was ever stored
C8_Witness ==
    /\ set_seq = 0
    /\ workout_sets = {}
    /\ \E e1, e2 \in ExerciseIds :
          /\ e1 # e2
          /\ LogGet(workout_log, e1) # << >>
          /\ LogGet(workout_log, e2) # << >>

\* C9: Add Set with the bodyweight box ticked and the profile's weight NULL
\* or 0 shows the body weight error and leaves workout_log as it is.
C9_MissingBodyweightRejected ==
    [][ \A f \in FormInputs :
          ( /\ AddSet(f)
            /\ f.bodyweight
            /\ get_user_profile(users, user_id) \in {NULL, 0} )
          => /\ msg' = MsgMissingBW
             /\ workout_log' = workout_log ]_vars

\* the error is on the page of a user without a profile weight, over a
\* buffer that holds a set
C9_Witness ==
    /\ msg = MsgMissingBW
    /\ get_user_profile(users, user_id) = NULL
    /\ LogSize(workout_log) > 0

BufferRepsValid ==
    \A i \in DOMAIN workout_log :
        \A j \in DOMAIN workout_log[i].sets : workout_log[i].sets[j][2] >= 1

BodyweightMissing(f) ==
    f.bodyweight /\ get_user_profile(users, user_id) \in {NULL, 0}

C11_AddSetAppendsResistance ==
    [][ \A f \in FormInputs :
          (AddSet(f) /\ msg' = MsgNone)
          => LET weight_kg == get_user_profile(users, user_id)
                 recorded  == IF f.bodyweight THEN weight_kg + f.added_weight
                              ELSE f.added_weight
             IN  /\ LogGet(workout_log', exercise_selector)
                      = Append(LogGet(workout_log, exercise_selector),
                               << recorded, f.reps, f.rpe >>)
                 /\ \A e \in ExerciseIds \ {exercise_selector} :
                        LogGet(workout_log', e) = LogGet(workout_log, e) ]_vars

\* profile weight 70 and added weight 10: the buffer holds 80
C11_Witness ==
    /\ get_user_profile(users, user_id) = 70
    /\ \E i \in DOMAIN workout_log :
          \E j \in DOMAIN workout_log[i].sets :
              workout_log[i].sets[j] = << 80, 2, 10 >>

\* the buffer's totals, from the tuples as they were entered
RECURSIVE TupleReps(_)
TupleReps(sets) ==
    IF sets = << >> THEN 0 ELSE Head(sets)[2] + TupleReps(Tail(sets))

RECURSIVE TupleVolume(_)
TupleVolume(sets) ==
    IF sets = << >> THEN 0
    ELSE Head(sets)[1] * Head(sets)[2] + TupleVolume(Tail(sets))

RECURSIVE BufferReps(_)
BufferReps(log) ==
    IF log = << >> THEN 0 ELSE TupleReps(Head(log).sets) + BufferReps(Tail(log))

RECURSIVE BufferVolume(_)
BufferVolume(log) ==
    IF log = << >> THEN 0
    ELSE TupleVolume(Head(log).sets) + BufferVolume(Tail(log))

BufferTotals(log) ==
    [ total_volume_load |-> BufferVolume(log),
      total_sets        |-> LogSize(log),
      total_reps        |-> BufferReps(log) ]

\* the totals of a report; one without sets shows none
ReportTotals(report) ==
    IF "info" \in DOMAIN report
    THEN [ total_volume_load |-> 0, total_sets |-> 0, total_reps |-> 0 ]
    ELSE report

AddTotals(a, b) ==
    [ total_volume_load |-> a.total_volume_load + b.total_volume_load,
      total_sets        |-> a.total_sets + b.total_sets,
      total_reps        |-> a.total_reps + b.total_reps ]

C13_DuplicateUsernameRejected ==
    /\ [](\A u1 \in users, u2 \in users :
            u1.username = u2.username => u1 = u2)
    /\ [][ \A n \in Usernames, p \in Passwords, t \in Salts :
             /\ (CallCreateUser(n, p, t) /\ \E u \in users : u.username = n)
                => /\ ret'.val = << FALSE, None >>
                   /\ users' = users
                   /\ user_seq' = user_seq
             /\ (SignUp(n, p, p, t) /\ \E u \in users : u.username = n)
                => /\ msg' = MsgUserExists
                   /\ users' = users
                   /\ user_seq' = user_seq ]_vars

\* create_user has failed on a name in use
C13_Witness ==
    /\ ret.op = "create_user"
    /\ ret.val = << FALSE, None >>
    /\ \E u \in users : u.username = ret.args[1]

\* the accounts a name and a password log in to
Matching(n, p) ==
    { u \in users : u.username = n /\ verify_password(p, u.password_hash) }

\* C14: authenticate_user gives the id and admin flag of the account whose
\* name is the one given and whose stored hash verifies the password, and
\* (None, None) in every other case, for an unknown name as for a wrong
\* password; the login form then shows one and the same error and logs
\* nobody in.
C14_AuthenticateIndistinguishable ==
    /\ [](\A n \in Usernames, p \in Passwords :
            LET r == authenticate_user(users, n, p)
            IN  IF Matching(n, p) # {}
                THEN \E u \in Matching(n, p) : r = << u.id, u.is_admin >>
                ELSE r = << None, None >>)
    /\ [][ \A n \in Usernames \ {""}, p \in Passwords :
             (LogIn(n, p) /\ Matching(n, p) = {})
             => /\ ret'.val = << None, None >>
                /\ msg' = MsgLoginInvalid
                /\ user_id' = None ]_vars

\* the login form has refused a wrong password for a name that exists
C14_Witness ==
    /\ ret.op = "authenticate_user"
    /\ ret.val = << None, None >>
    /\ msg = MsgLoginInvalid
    /\ \E u \in users : u.username = ret.args[1]

\* the elements of a sequence
Range(seq) == { seq[i] : i \in DOMAIN seq }

\* C15: no two rows of exercises have the same name; add_exercise with a
\* name in use ends with the duplicate-name message and leaves exercises and
\* exercise_categories as they are.
C15_DuplicateExerciseRejected ==
    /\ [](\A e1 \in exercises, e2 \in exercises :
            e1.name = e2.name => e1 = e2)
    /\ [][ \A name \in ExerciseNames, cats \in CategoryChoices :
             (CallAddExercise(name, cats) /\ \E e \in exercises : e.name = name)
             => /\ ret'.err = MsgExerciseExists
                /\ exercises' = exercises
                /\ exercise_categories' = exercise_categories ]_vars

\* add_exercise has been called a second time with the name Squat
C15_Witness ==
    /\ ret.op = "add_exercise"
    /\ ret.err = MsgExerciseExists
    /\ ret.args[1] = "Squat"
    /\ Cardinality({ e \in exercises : e.name = "Squat" }) = 1

\* C16: add_exercise, completed or ended at any point, leaves exercises and
\* exercise_categories as they were or adds one exercise row and a link to
\* each of the categories given; delete_session, completed or ended at any
\* point, leaves sessions and workout_sets as they were or removes the
\* session's row and every set of the session.
C16_TransactionsAtomic ==
    [][ /\ \A name \in ExerciseNames, cats \in CategoryChoices :
             (CallAddExercise(name, cats)
                \/ \E n \in 0..3 : StopAddExercise(name, cats, n))
             => \/ /\ exercises' = exercises
                   /\ exercise_categories' = exercise_categories
                \/ /\ exercises \subseteq exercises'
                   /\ exercise_categories \subseteq exercise_categories'
                   /\ \E e \in exercises' \ exercises :
                         /\ exercises' \ exercises = { e }
                         /\ e.name = name
                         /\ exercise_categories' \ exercise_categories
                              = { [ exercise_id |-> e.id, category_id |-> c ] :
                                    c \in Range(cats) }
        /\ \A sid \in 1..MaxSessions :
             (CallDeleteSession(sid) \/ \E n \in 0..2 : StopDeleteSession(sid, n))
             => \/ /\ sessions' = sessions
                   /\ workout_sets' = workout_sets
                \/ /\ sessions' = { x \in sessions : x.id # sid }
                   /\ workout_sets'
                        = { r \in workout_sets : r.session_id # sid } ]_vars

\* delete_session has ended after its first statement on a session that
\* has sets
C16_Witness ==
    /\ ret.op = "delete_session"
    /\ ret.err = MsgStopped
    /\ ret.args[2] = 1
    /\ \E r \in workout_sets : r.session_id = ret.args[1]

\* C17: delete_workout_sets removes the rows whose id is among the ids given
\* and leaves every other row of workout_sets as it is, set_number included.
C17_DeleteSetsExact ==
    [][ \A ids \in SUBSET (1..MaxRows) :
          CallDeleteWorkoutSets(ids)
          => /\ workout_sets' = { r \in workout_sets : r.id \notin ids }
             /\ UNCHANGED << sessions, exercises, exercise_categories, users,
                             categories >> ]_vars

\* set 1 of a session and exercise has been deleted and its set 2 is left
C17_Witness ==
    /\ ret.op = "delete_workout_sets"
    /\ ret.args[1] # {}
    /\ set_seq = 2
    /\ \E r \in workout_sets :
          /\ workout_sets = { r }
          /\ r.set_number = 2
          /\ r.id \notin ret.args[1]

\* C18: delete_session for an id without a session row, and
\* delete_workout_sets for ids without rows or for no ids, return without an
\* error and leave the store as it is; either delete applied a second time
\* changes nothing.
C18_DeletesIdempotent ==
    /\ [](\A sid \in 1..MaxSessions :
            delete_session(delete_session(Db, sid), sid) = delete_session(Db, sid))
    /\ [](\A ids \in SUBSET (1..MaxRows) :
            delete_workout_sets(delete_workout_sets(workout_sets, ids), ids)
              = delete_workout_sets(workout_sets, ids))
    /\ [][ /\ \A sid \in 1..MaxSessions :
               (CallDeleteSession(sid) /\ sid \notin SessionIds)
               => /\ ret'.val = None
                  /\ ret'.err = MsgNone
                  /\ UNCHANGED << sessions, workout_sets, exercises,
                                  exercise_categories, users, categories >>
          /\ \A ids \in SUBSET (1..MaxRows) :
               (CallDeleteWorkoutSets(ids)
                  /\ ids \cap { r.id : r \in workout_sets } = {})
               => /\ ret'.val = None
                  /\ ret'.err = MsgNone
                  /\ UNCHANGED << sessions, workout_sets, exercises,
                                  exercise_categories, users, categories >> ]_vars

\* delete_session has been called for a session deleted before, in a store
\* that holds sets
C18_Witness ==
    /\ ret.op = "delete_session"
    /\ ret.err = MsgNone
    /\ ret.args[1] <= session_seq
    /\ ret.args[1] \notin SessionIds
    /\ workout_sets # {}


\* the store was written under the older schema
OlderStore == \E u \in users : u.username = "old"

\* upgrade_schema finds nothing to add or rename, and every default category
\* is there
UpToDate ==
    /\ \A t \in Tables : schema[t] # {}
    /\ schema = upgrade_schema(schema)
Seeded == \A i \in 1..Len(default_cats) :
              \E c \in categories : c.name = default_cats[i]

\* C19: two runs of the startup migration on the same store of the older
\* schema, their statements interleaved in any order, both complete without
\* an error, and once both are done the schema is the one a single run leaves.
C19_ConcurrentUpgradeCompletes ==
    OlderStore =>
        /\ \A p \in Procs : procs[p].pc # "error"
        /\ (\A p \in Procs : procs[p].pc = "done")
               => schema = upgrade_schema(init_db(LegacySchema))

\* C20: on a store that is on the current schema and holds every default
\* category, no statement of init_db, upgrade_schema or the seeding changes a
\* table, a column or a row.
C20_StartupIdempotent ==
    [][ (UpToDate /\ Seeded) =>
            UNCHANGED << schema, users, user_seq, workout_sets, set_seq,
                         categories, category_seq, exercises, exercise_seq,
                         exercise_categories, sessions, session_seq >> ]_vars

\* both processes ran the whole startup on the store that was current and
\* seeded from the start
C20_Witness ==
    /\ \A p \in Procs : procs[p].pc = "done"
    /\ \E u \in users : u.username = "ann"
    /\ schema = CurrentSchema
    /\ categories = SeededCategories

\* the value of column c of an older row r as the row w holds it
Kept(r, w, c) ==
    IF c = "rp_rating" /\ c \notin DOMAIN w
    THEN "rpe_rating" \in DOMAIN w /\ w.rpe_rating = r.rp_rating
    ELSE c \in DOMAIN w /\ w[c] = r[c]

\* the values a column added by the migration can hold in a row that was
\* there before: its declared default, or the marker the migration writes
AddedDefault(c) ==
    IF c = "password_hash" THEN { "", "legacy" } ELSE { NULL }

\* older is one of the tables' rows before the migration, now the rows after
Preserved(older, now) ==
    /\ { w.id : w \in now } = { r.id : r \in older }
    /\ Cardinality(now) = Cardinality(older)
    /\ \A r \in older : \E w \in now :
          /\ w.id = r.id
          /\ \A c \in DOMAIN r : Kept(r, w, c)
          /\ \A c \in DOMAIN w \ (DOMAIN r \cup { "rpe_rating" }) :
                w[c] \in AddedDefault(c)

\* C21: the migration of a store of the older schema removes no row of users
\* or workout_sets and overwrites no stored value: at every point of it each
\* row that was there is there with the values of its columns, the value of
\* rp_rating under rpe_rating once the column is renamed, and every column
\* added holds its default.
C21_MigrationPreservesRows ==
    OlderStore =>
        /\ Preserved(LegacyUsers, users)
        /\ Preserved(LegacySets, workout_sets)
        /\ \A p \in Procs : procs[p].txn # << >> =>
              /\ Preserved(LegacyUsers, procs[p].txn[1].users)
              /\ Preserved(LegacySets, procs[p].txn[1].workout_sets)

\* a run of the migration on the older store is over: the rows have the new
\* columns, and the set row its rating under rpe_rating
C21_Witness ==
    /\ OlderStore
    /\ \E p \in Procs : procs[p].pc = "done"
    /\ schema = upgrade_schema(init_db(LegacySchema))
    /\ \A u \in users : u.password_hash = "legacy" /\ u.age = NULL
    /\ \A w \in workout_sets :
          /\ DOMAIN w = schema.workout_sets
          /\ w.rpe_rating = 7
          /\ w.session_id = NULL

\* the stored sets of user uid and exercise e that the By Exercise report
\* reads, and those of one session date
ReportData(uid, e) ==
    { r \in workout_sets : /\ r.user_id = uid
                           /\ r.exercise_id = e
                           /\ r.session_id \in SessionIds }
ReportDataOn(uid, e, d) ==
    { r \in ReportData(uid, e) :
        \E s \in sessions : s.id = r.session_id /\ s.date = d }

\* C22: the estimated 1RM is reported only for sets with reps < 37: in both
\* reports of the logged-in user every value comes from a set with reps <= 36,
\* and a date or exercise that has only sets with more reps has no number.
C22_OneRMOnlyBelow37 ==
    user_id # None =>
        /\ \A e \in ExerciseIds :
              LET report == by_exercise_report(workout_sets, exercises,
                                               sessions, user_id, e)
              IN  \A d \in DOMAIN report.daily_max :
                     \/ report.daily_max[d] = NaN
                     \/ \E r \in ReportDataOn(user_id, e, d) :
                           /\ r.reps <= 36
                           /\ report.daily_max[d].num * (37 - r.reps)
                                 = r.weight * 36 * report.daily_max[d].den
        /\ \A s \in get_user_sessions(sessions, user_id) :
              LET details == exercise_details(workout_sets, exercises, s.id)
              IN  \A e \in DOMAIN details.ex_1rm :
                     \/ details.ex_1rm[e] = NaN
                     \/ \E r \in workout_sets :
                           /\ r.session_id = s.id
                           /\ r.exercise_id = e
                           /\ r.reps <= 36
                           /\ details.ex_1rm[e].num * (37 - r.reps)
                                 = r.weight * 36 * details.ex_1rm[e].den

\* C23: every stored set has reps >= 1, rpe_rating in 0..10 and weight >= 0,
\* whatever sequence of Add Set, Duplicate Last Set, Clear Sets and Save Entire
\* Workout produced it.
C23_StoredSetsInRange ==
    \A r \in workout_sets :
        /\ r.reps >= 1
        /\ r.rpe_rating \in 0..10
        /\ r.weight >= 0

\* sets at the ends of the ranges are stored: the least reps and weight with
\* rpe 0, and rpe 10
C23_Witness ==
    /\ \E r \in workout_sets : r.reps = 1 /\ r.weight = 0 /\ r.rpe_rating = 0
    /\ \E r \in workout_sets : r.rpe_rating = 10

\* weight * reps summed over the rows with ids 1..n
RECURSIVE VolumeUpTo(_, _)
VolumeUpTo(rows, n) ==
    IF n = 0 THEN 0
    ELSE VolumeUpTo(rows, n - 1)
         + (IF \E r \in rows : r.id = n
            THEN LET r == CHOOSE x \in rows : x.id = n IN r.weight * r.reps
            ELSE 0)

\* the fraction v is weight * 36 / (37 - reps) of row r, resp. not below it,
\* for reps up to 37 (x / 0 counts as above every number)
IsOneRMOf(v, r) ==
    /\ v.num * (37 - r.reps) = r.weight * 36 * v.den
    /\ (v.den = 0) = (r.reps = 37)
NotBelowOneRMOf(v, r) == r.weight * 36 * v.den <= v.num * (37 - r.reps)

\* C24: the By Exercise report of the logged-in user and the selected exercise
\* is made of exactly the stored sets of that user and exercise, grouped by the
\* date of their session: per date the 1RM value is the greatest
\* weight * 36 / (37 - reps) of the date's sets and the volume value is the sum
\* of their weight * reps; one set of 100 kg x 5 gives 112.5 and 500.
C24_ByExerciseReport ==
    user_id # None =>
        \A e \in ExerciseIds :
            LET report == by_exercise_report(workout_sets, exercises, sessions,
                                             user_id, e)
                data   == ReportData(user_id, e)
                dates  == { s.date : s \in { x \in sessions :
                              \E r \in data : r.session_id = x.id } }
            IN  /\ report.logged_sets = { r.id : r \in data }
                /\ (report.info = MsgNone) = (data # {})
                /\ DOMAIN report.daily_max = dates
                /\ DOMAIN report.daily_volume_load = dates
                /\ \A d \in dates :
                      LET on == ReportDataOn(user_id, e, d)
                          v  == report.daily_max[d]
                      IN  /\ report.daily_volume_load[d] = VolumeUpTo(on, set_seq)
                          /\ \E r \in on : IsOneRMOf(v, r)
                          /\ \A r \in on : NotBelowOneRMOf(v, r)
                          /\ (\A r \in on : r.weight = 100 /\ r.reps = 5)
                                => /\ v = [ num |-> 225, den |-> 2 ]
                                   /\ report.daily_volume_load[d]
                                         = 500 * Cardinality(on)

\* the logged-in user looks at an exercise with two sets of 100 kg x 5 in two
\* sessions of the same date, next to nothing of the other exercise: one date
\* with 112.5 and 1000
C24_Witness ==
    /\ user_id # None
    /\ \E e \in ExerciseIds :
          LET report == by_exercise_report(workout_sets, exercises, sessions,
                                           user_id, e)
          IN  /\ Cardinality(report.logged_sets) = 2
              /\ { r.session_id : r \in workout_sets } = { 1, 2 }
              /\ DOMAIN report.daily_max = { Today }
              /\ report.daily_max[Today] = [ num |-> 225, den |-> 2 ]
              /\ report.daily_volume_load[Today] = 1000

\* C25: Duplicate Last Set is there only for a selected exercise with a
\* non-empty buffered sequence, and appends to that sequence one tuple equal to
\* its last one; the tuples before it and the sequences of the other exercises
\* stay as they are.
C25_DuplicateAppendsLast ==
    [][ DuplicateLastSetWithin(MaxBuf) =>
          LET old == LogGet(workout_log, exercise_selector)
              new == LogGet(workout_log', exercise_selector)
          IN  /\ old # << >>
              /\ Len(new) = Len(old) + 1
              /\ new[Len(new)] = old[Len(old)]
              /\ \A i \in 1..Len(old) : new[i] = old[i]
              /\ \A x \in ExerciseIds \ { exercise_selector } :
                    LogGet(workout_log', x) = LogGet(workout_log, x) ]_vars

\* a sequence of two different tuples got a copy of its second one
C25_Witness ==
    LET sets_list == LogGet(workout_log, exercise_selector)
    IN  /\ LoggingShown
        /\ Len(sets_list) = 3
        /\ sets_list[1] # sets_list[2]
        /\ sets_list[3] = sets_list[2]

\* C26: Clear Sets for This Exercise empties the buffered sequence of the
\* selected exercise and leaves the sequences of the other exercises, the
\* selected session and the store as they are.
C26_ClearSetsOnlyOneExercise ==
    [][ ClearSets =>
          /\ LogGet(workout_log', exercise_selector) = << >>
          /\ \A x \in ExerciseIds \ { exercise_selector } :
                LogGet(workout_log', x) = LogGet(workout_log, x)
          /\ UNCHANGED << current_session_id, exercise_selector, users,
                          exercises, sessions, session_seq, workout_sets,
                          set_seq >> ]_vars

\* the selected exercise's sequence is empty next to two buffered tuples of
\* the other exercise
C26_Witness ==
    /\ LoggingShown
    /\ Len(workout_log) = 2
    /\ workout_log[1].ex = exercise_selector
    /\ workout_log[1].sets = << >>
    /\ Len(workout_log[2].sets) = 2

\* C27: no handler changes a field of a stored set: over a step a set id keeps
\* all its values or is gone, and an id that is gone is not given to a later
\* set, so between any two states a set id has the same values or is absent.
C27_StoredSetsImmutable ==
    /\ [](\A r \in workout_sets : r.id <= set_seq)
    /\ [][ /\ \A r \in workout_sets : \A q \in workout_sets' :
                 q.id = r.id => q = r
           /\ \A q \in workout_sets' \ workout_sets : q.id > set_seq
           /\ set_seq' >= set_seq ]_vars

\* a second save for the same session and exercise left the first set as it
\* was: two sets with set_number 1, one of 5 reps and one of 37
C27_Witness ==
    \E r, q \in workout_sets :
        /\ r.id = 1 /\ q.id = 2
        /\ r.session_id = q.session_id
        /\ r.exercise_id = q.exercise_id
        /\ r.set_number = 1 /\ q.set_number = 1
        /\ r.reps = 5 /\ q.reps = 37

\* the rows of a table that a step adds or removes
Touched(before, after) == (after \ before) \cup (before \ after)

\* C28: while user u is logged in no handler creates or deletes a session or a
\* set of another user (and none does with nobody logged in): the sessions
\* offered for selection, saving and deletion and the sets offered for
\* deletion in both reports are all u's.
C28_OnlyOwnSessionsAndSets ==
    /\ [](user_id # None =>
            LET own == { s.id : s \in { x \in sessions : x.user_id = user_id } }
                ownsets == { r.id : r \in { x \in workout_sets :
                                             x.user_id = user_id } }
            IN  /\ SessionOptions(sessions, user_id) = {0} \cup own
                /\ current_session_id \in {0} \cup own
                /\ \A e \in ExerciseIds :
                      by_exercise_report(workout_sets, exercises, sessions,
                                         user_id, e).logged_sets \subseteq ownsets
                /\ \A s \in SessionOptions(sessions, user_id) \ {0} :
                      exercise_details(workout_sets, exercises, s).delete_sets
                          \subseteq ownsets)
    /\ [][ /\ user_id = None => UNCHANGED << sessions, workout_sets >>
           /\ user_id # None =>
                 /\ \A s \in Touched(sessions, sessions') :
                       s.user_id = user_id
                 /\ \A r \in Touched(workout_sets, workout_sets') :
                       r.user_id = user_id ]_vars

\* user 1 is logged in with a session and a set of their own selected, and the
\* store holds a session and a set of user 2
C28_Witness ==
    /\ user_id = 1
    /\ \E s \in sessions : s.user_id = 2 /\ \E r \in workout_sets :
          r.session_id = s.id /\ r.user_id = 2
    /\ \E s \in sessions : s.user_id = 1 /\ s.id = current_session_id
    /\ \E r \in workout_sets : r.user_id = 1

\* C29: the buffer is changed and saved only with a user logged in and one of
\* that user's sessions selected: whenever a tuple is buffered, user_id is set
\* and current_session_id is the id of a session of that user, not 0; and a
\* save writes no set with session_id 0.
C29_BufferNeedsUserAndSession ==
    /\ [](LogSize(workout_log) > 0 =>
            /\ user_id # None
            /\ current_session_id # 0
            /\ \E s \in sessions : /\ s.id = current_session_id
                                   /\ s.user_id = user_id)
    /\ [][ /\ workout_log' # workout_log /\ LogSize(workout_log') > 0
              => user_id # None /\ current_session_id # 0
           /\ \A r \in Added :
                 /\ r.session_id # 0
                 /\ r.session_id = current_session_id
                 /\ user_id # None ]_vars

\* after a save into the selected session a tuple is buffered again
C29_Witness ==
    /\ LogSize(workout_log) > 0
    /\ user_id # None
    /\ \E r \in workout_sets : r.session_id = current_session_id

\* C30: a session is deleted only by Yes, delete, and only the session whose
\* id Delete Workout recorded in confirm_delete before; Delete Workout itself
\* and Cancel leave sessions and workout_sets as they are.
C30_DeleteOnlyAfterConfirm ==
    /\ [][ sessions \ sessions' # {} =>
              /\ YesDelete
              /\ confirm_delete = current_session_id
              /\ sessions \ sessions'
                    = { s \in sessions : s.id = confirm_delete } ]_vars
    /\ [][ (DeleteWorkout \/ CancelDelete) =>
              UNCHANGED << sessions, workout_sets >> ]_vars

\* a session with a stored set was deleted after the request and the Yes
C30_Witness ==
    /\ session_seq >= 1
    /\ set_seq >= 1
    /\ sessions = {}
    /\ workout_sets = {}
    /\ confirm_delete = None
    /\ user_id # None

\* C31: Logout leaves no user, session id 0 and an empty buffer, which is the
\* state a logged-out page is always in; the login that follows starts with
\* an empty buffer and no selected session, and every row a save adds carries
\* the id of the user logged in at that save.
C31_LogoutResetsState ==
    /\ [](user_id = None =>
            /\ ~is_admin
            /\ current_session_id = 0
            /\ LogSize(workout_log) = 0
            /\ current_exercise = None)
    /\ [][ Logout =>
             /\ user_id' = None
             /\ ~is_admin'
             /\ current_session_id' = 0
             /\ LogSize(workout_log') = 0
             /\ current_exercise' = None
             /\ Added = {} ]_vars
    /\ [][ (\E u \in users : Login(u)) =>
             /\ LogSize(workout_log) = 0
             /\ LogSize(workout_log') = 0
             /\ current_session_id' = 0
             /\ Added = {} ]_vars
    /\ [][ \A r \in Added : user_id # None /\ r.user_id = user_id ]_vars

\* the second user is logged in on an empty buffer after the first user, who
\* buffered and saved sets in a session of their own, logged out
C31_Witness ==
    /\ user_id = 2
    /\ current_session_id = 0
    /\ LogSize(workout_log) = 0
    /\ \E s \in sessions : /\ s.user_id = 1
                           /\ \E r \in workout_sets : /\ r.session_id = s.id
                                                      /\ r.user_id = 1

\* C32: a step that changes exercises or exercise_categories is taken by a
\* logged-in user whose is_admin flag is set, in the page's state and in the
\* users table; a row a step adds to users has is_admin 0, and no step
\* removes an account or changes the is_admin of one.
C32_OnlyAdminsChangeExercises ==
    /\ [][ exercises' # exercises \/ exercise_categories' # exercise_categories
             => /\ user_id # None
                /\ is_admin
                /\ \E u \in users : u.id = user_id /\ u.is_admin = 1
                /\ user_id' = user_id ]_vars
    /\ [][ /\ \A v \in users' :
                (\A u \in users : u.id # v.id) => v.is_admin = 0
           /\ \A u \in users :
                \E v \in users' : v.id = u.id /\ v.is_admin = u.is_admin ]_vars
    /\ [](user_id # None =>
            \E u \in users : u.id = user_id /\ is_admin = (u.is_admin = 1))

\* an account made by sign-up is logged in without the admin flag, next to
\* an exercise the admin added with its categories
C32_Witness ==
    /\ \E u \in users : /\ u.username \in { "cat", "dan" }
                        /\ u.is_admin = 0
                        /\ user_id = u.id
    /\ ~is_admin
    /\ \E e \in exercises : /\ e.name = "Squat"
                            /\ \E x \in exercise_categories :
                                   x.exercise_id = e.id

=============================================================================
